---- MODULE Spec2Model ----
(***************************************************************************)
(* Dentropic clinic-operations server: the authorized-action wrapper       *)
(* (runWithAuthAudit), the authorization policy, the purpose-of-use check, *)
(* the audit log, the in-memory stores and the scheduling engine           *)
(* (createTimeSlots / findOpenSlots).                                      *)
(*                                                                         *)
(* Strings whose characters matter (actor.purpose, the environment value   *)
(* of REQUIRE_PURPOSE_ON_SENSITIVE_READS) are sequences of one-character   *)
(* strings.  A timestamp is the ISO-8601 string the code stores and        *)
(* compares: it is modelled by its minute of the day and its suffix        *)
(* format, and compared the way JavaScript compares strings.               *)
(***************************************************************************)
EXTENDS Integers, Sequences, FiniteSets, TLC

VARIABLES
    rolePermissions,   \* auth.ts: const rolePermissions (role -> Permission[])
    config,            \* index.ts: const config = loadConfig()
    patients,          \* MemoryDentalStore.patients (the ids held)
    appointments,      \* MemoryDentalStore.appointments (set of records)
    scheduleBlocks,    \* MemoryClinicOpsRepository.scheduleBlocks
    repo,              \* the other repository maps: resource type -> number of records
    auditLog,          \* AuditLog.events
    call,              \* the last tool invocation and what its caller received
    bookings,          \* caller -> position of its bookAppointmentFromSlot call
    families,          \* MemoryClinicOpsRepository.families (set of records)
    ledgerEntries,     \* MemoryClinicOpsRepository.ledgerEntries (set of records)
    links,             \* the upsertFamily calls under way, by caller
    treatment          \* the insurance plans and treatment-plan items of a patient

vars == <<rolePermissions, config, patients, appointments, scheduleBlocks,
          repo, auditLog, call, bookings, families, ledgerEntries, links,
          treatment>>

\* what the actions outside the booking and family specifications leave alone
inFlight == <<bookings, families, ledgerEntries, links, treatment>>

\* the maps of the clinic operations repository the model holds in full
clinicOps == <<families, ledgerEntries, links, treatment>>

stores == <<patients, appointments, scheduleBlocks, repo>>

(***************************************************************************)
(* Bounds of the model.                                                    *)
(***************************************************************************)
MaxAudit == 2          \* audit events kept before the model stops
MaxPurposeLen == 9     \* longest actor.purpose enumerated
MaxBlocks == 2         \* schedule blocks held in the slot specification
MaxSlotAppointments == 1  \* appointments held in the slot specification

(***************************************************************************)
(* Characters and strings.                                                 *)
(***************************************************************************)
Undefined == <<"undefined">>       \* a value that is not a string (JS undefined)

IsSpace(c) == c = " "

RECURSIVE TrimStart(_)
TrimStart(s) ==
    IF s # <<>> /\ IsSpace(Head(s)) THEN TrimStart(Tail(s)) ELSE s

RECURSIVE TrimEnd(_)
TrimEnd(s) ==
    IF s # <<>> /\ IsSpace(s[Len(s)]) THEN TrimEnd(SubSeq(s, 1, Len(s) - 1)) ELSE s

\* String.prototype.trim
Trim(s) == TrimEnd(TrimStart(s))

LowerChar(c) ==
    CASE c = "T" -> "t" [] c = "R" -> "r" [] c = "U" -> "u" [] c = "E" -> "e"
      [] c = "Y" -> "y" [] c = "S" -> "s" [] OTHER -> c

\* String.prototype.toLowerCase
ToLowerCase(s) == [i \in DOMAIN s |-> LowerChar(s[i])]

(***************************************************************************)
(* Configuration (config.ts).                                              *)
(***************************************************************************)
EnvValues ==
    { Undefined, <<>>, <<"1">>, <<"0">>,
      <<"t", "r", "u", "e">>, <<"T", "R", "U", "E">>, <<" ", "y", "e", "s", " ">>,
      <<"f", "a", "l", "s", "e">>, <<"o", "n">> }

normalizeBoolean(value, fallback) ==
    IF value = Undefined \/ value = <<>>
    THEN fallback
    ELSE LET normalized == ToLowerCase(Trim(value))
         IN  normalized \in { <<"1">>, <<"t", "r", "u", "e">>, <<"y", "e", "s">> }

loadConfig(env) ==
    [ requirePurposeOnSensitiveReads |-> normalizeBoolean(env, TRUE) ]

(***************************************************************************)
(* Authorization policy (security/auth.ts).                                *)
(***************************************************************************)
userRoles ==
    { "admin", "dentist", "hygienist", "assistant", "front-desk", "billing",
      "readonly", "system" }

allPermissions ==
    << "patient:read", "patient:write", "appointment:read", "appointment:write",
       "insurance:read", "insurance:write", "treatment:read", "treatment:write",
       "ledger:read", "ledger:write", "chart:read", "chart:write",
       "recall:read", "recall:write", "task:read", "task:write",
       "communication:read", "communication:write", "image:read", "image:write",
       "image:analyze", "migration:write", "audit:read" >>

Permission == { allPermissions[i] : i \in DOMAIN allPermissions }

\* the permissions of the form *:read
ReadPermission ==
    { "patient:read", "appointment:read", "insurance:read", "treatment:read",
      "ledger:read", "chart:read", "recall:read", "task:read",
      "communication:read", "image:read", "audit:read" }

RolePermissionsTable ==
    [ r \in userRoles |->
        CASE r = "admin" -> allPermissions
          [] r = "system" -> allPermissions
          [] r = "dentist" ->
               << "patient:read", "patient:write", "appointment:read",
                  "appointment:write", "insurance:read", "treatment:read",
                  "treatment:write", "ledger:read", "chart:read", "chart:write",
                  "recall:read", "recall:write", "task:read", "task:write",
                  "communication:read", "communication:write", "image:read",
                  "image:write", "image:analyze" >>
          [] r = "hygienist" ->
               << "patient:read", "appointment:read", "appointment:write",
                  "insurance:read", "treatment:read", "chart:read", "chart:write",
                  "recall:read", "recall:write", "task:read", "task:write",
                  "communication:read", "communication:write", "image:read",
                  "image:write", "image:analyze" >>
          [] r = "assistant" ->
               << "patient:read", "appointment:read", "appointment:write",
                  "treatment:read", "chart:read", "chart:write", "task:read",
                  "task:write", "communication:read", "communication:write",
                  "image:read", "image:write", "image:analyze" >>
          [] r = "front-desk" ->
               << "patient:read", "patient:write", "appointment:read",
                  "appointment:write", "insurance:read", "recall:read",
                  "recall:write", "task:read", "task:write",
                  "communication:read", "communication:write" >>
          [] r = "billing" ->
               << "patient:read", "appointment:read", "insurance:read",
                  "insurance:write", "treatment:read", "ledger:read",
                  "ledger:write", "communication:read", "communication:write",
                  "task:read", "task:write" >>
          [] r = "readonly" ->
               << "patient:read", "appointment:read", "insurance:read",
                  "treatment:read", "ledger:read", "chart:read", "recall:read",
                  "task:read", "communication:read", "image:read" >> ]

NoError == [ name |-> "none", message |-> <<>> ]

Error(message) == [ name |-> "Error", message |-> message ]

hasPermissionReadsForAll(role, permission) ==
    \/ \E i \in DOMAIN rolePermissions[role] : rolePermissions[role][i] = permission
    \/ permission \in ReadPermission

hasPermissionWriteImpliedByRead(role, permission) ==
    \E i \in DOMAIN rolePermissions[role] :
        \/ rolePermissions[role][i] = permission
        \/ /\ rolePermissions[role][i] = "patient:read"
           /\ permission = "patient:write"

\* Array.prototype.includes over the role's permission array
hasPermission(role, permission) ==
    \E i \in DOMAIN rolePermissions[role] : rolePermissions[role][i] = permission

\* returns NoError, or the Error it throws
assertAuthorized(actor, permission) ==
    IF ~hasPermission(actor.role, permission)
    THEN Error(<<"not authorized", actor.userId, actor.role, permission>>)
    ELSE NoError

MinPurposeLength == 8

requirePurposeUntrimmed(actor, requiredNote) ==
    IF actor.purpose = Undefined \/ actor.purpose = <<>>
       \/ Len(actor.purpose) < MinPurposeLength
    THEN Error(<<"Purpose of use is required", requiredNote>>)
    ELSE NoError

\* returns NoError, or the Error it throws
requirePurpose(actor, requiredNote) ==
    IF actor.purpose = Undefined \/ actor.purpose = <<>>
       \/ Len(Trim(actor.purpose)) < MinPurposeLength
    THEN Error(<<"Purpose of use is required", requiredNote>>)
    ELSE NoError

(***************************************************************************)
(* Audit log (security/audit.ts) and the wrapper (index.ts).               *)
(***************************************************************************)
NoId == 0            \* an optional id that is not supplied

\* AuditLog.log: the event appended (id and timestamp left out)
AuditEvent(input) ==
    [ actorUserId |-> input.actor.userId,
      actorRole |-> input.actor.role,
      action |-> input.action,
      resourceType |-> input.resourceType,
      resourceId |-> input.resourceId,
      success |-> input.success,
      reason |-> input.reason ]

logSuccessesOnly(events, input) ==
    IF input.success THEN Append(events, AuditEvent(input)) ELSE events

log(events, input) == Append(events, AuditEvent(input))

AuditInput(options, success, reason) ==
    [ actor |-> options.actor, action |-> options.action,
      resourceType |-> options.resourceType, resourceId |-> options.resourceId,
      success |-> success, reason |-> reason ]

\* What one run of the wrapper does, given what the unit of work fn does when
\* it is started in the current state (fn.thrown, fn.value): whether fn was
\* started, whether the purpose check was made, the audit log afterwards and
\* what the caller of the wrapper gets (thrown = NoError: fn's value).
runWithAuthAuditSkipAuth(options, fn) ==
    IF fn.thrown = NoError
    THEN [ ran |-> TRUE, purposeChecked |-> FALSE,
           events |-> log(auditLog, AuditInput(options, TRUE, <<>>)),
           thrown |-> NoError, value |-> fn.value ]
    ELSE [ ran |-> TRUE, purposeChecked |-> FALSE,
           events |-> log(auditLog, AuditInput(options, FALSE, fn.thrown.message)),
           thrown |-> fn.thrown, value |-> fn.value ]

runWithAuthAuditSwallow(options, fn) ==
    LET denied == assertAuthorized(options.actor, options.permission)
        check == options.requirePurposeOnRead /\ config.requirePurposeOnSensitiveReads
        rejected == IF check
                    THEN requirePurpose(options.actor, "sensitive read operation")
                    ELSE NoError
    IN  IF denied # NoError
        THEN [ ran |-> FALSE, purposeChecked |-> FALSE, events |-> auditLog,
               thrown |-> denied, value |-> fn.value ]
        ELSE IF rejected # NoError
        THEN [ ran |-> FALSE, purposeChecked |-> check, events |-> auditLog,
               thrown |-> rejected, value |-> fn.value ]
        ELSE IF fn.thrown = NoError
        THEN [ ran |-> TRUE, purposeChecked |-> check,
               events |-> log(auditLog, AuditInput(options, TRUE, <<>>)),
               thrown |-> NoError, value |-> fn.value ]
        ELSE [ ran |-> TRUE, purposeChecked |-> check,
               events |-> log(auditLog, AuditInput(options, FALSE, <<"failed">>)),
               thrown |-> Error(<<"failed">>), value |-> fn.value ]

runWithAuthAuditAlwaysPurpose(options, fn) ==
    LET denied == assertAuthorized(options.actor, options.permission)
        check == options.requirePurposeOnRead
        rejected == IF check
                    THEN requirePurpose(options.actor, "sensitive read operation")
                    ELSE NoError
    IN  IF denied # NoError
        THEN [ ran |-> FALSE, purposeChecked |-> FALSE, events |-> auditLog,
               thrown |-> denied, value |-> fn.value ]
        ELSE IF rejected # NoError
        THEN [ ran |-> FALSE, purposeChecked |-> check, events |-> auditLog,
               thrown |-> rejected, value |-> fn.value ]
        ELSE IF fn.thrown = NoError
        THEN [ ran |-> TRUE, purposeChecked |-> check,
               events |-> log(auditLog, AuditInput(options, TRUE, <<>>)),
               thrown |-> NoError, value |-> fn.value ]
        ELSE [ ran |-> TRUE, purposeChecked |-> check,
               events |-> log(auditLog, AuditInput(options, FALSE, fn.thrown.message)),
               thrown |-> fn.thrown, value |-> fn.value ]

runWithAuthAudit(options, fn) ==
    LET denied == assertAuthorized(options.actor, options.permission)
        check == options.requirePurposeOnRead /\ config.requirePurposeOnSensitiveReads
        rejected == IF check
                    THEN requirePurpose(options.actor, "sensitive read operation")
                    ELSE NoError
    IN  IF denied # NoError
        THEN [ ran |-> FALSE, purposeChecked |-> FALSE, events |-> auditLog,
               thrown |-> denied, value |-> fn.value ]
        ELSE IF rejected # NoError
        THEN [ ran |-> FALSE, purposeChecked |-> check, events |-> auditLog,
               thrown |-> rejected, value |-> fn.value ]
        ELSE IF fn.thrown = NoError
        THEN [ ran |-> TRUE, purposeChecked |-> check,
               events |-> log(auditLog, AuditInput(options, TRUE, <<>>)),
               thrown |-> NoError, value |-> fn.value ]
        ELSE [ ran |-> TRUE, purposeChecked |-> check,
               events |-> log(auditLog, AuditInput(options, FALSE, fn.thrown.message)),
               thrown |-> fn.thrown, value |-> fn.value ]

(***************************************************************************)
(* Timestamps.  All timestamps of the model lie on the requested date or   *)
(* at the following midnight (min = 1440).  fmt names the suffix after     *)
(* "HH:MM:": "ms" is "00.000Z" (what Date.toISOString prints), "s" is      *)
(* "00Z" (ISO-8601 without milliseconds), "eod" is "59.999Z" and "+02:00"   *)
(* is "00+02:00" (ISO-8601 local time with a UTC offset); min is the       *)
(* HH:MM the string spells, in minutes.                                    *)
(***************************************************************************)
\* the order of the suffixes as strings: '+' < '.' < 'Z', and "00" < "59"
FmtRank(fmt) ==
    CASE fmt = "+02:00" -> 0 [] fmt = "ms" -> 1 [] fmt = "s" -> 2 [] fmt = "eod" -> 3

\* the minutes a timestamp's UTC offset puts its wall-clock time ahead of UTC
UtcOffset(fmt) == IF fmt = "+02:00" THEN 2 * 60 ELSE 0

Iso(min) == [ min |-> min, fmt |-> "ms" ]     \* new Date(ms).toISOString()

\* the < of JavaScript on two such strings: code unit by code unit
StrLess(a, b) ==
    \/ a.min < b.min
    \/ a.min = b.min /\ FmtRank(a.fmt) < FmtRank(b.fmt)

StrLessEq(a, b) == a = b \/ StrLess(a, b)

\* new Date(iso).getTime(), in minutes of the day (whole minutes only)
GetTime(iso) == iso.min - UtcOffset(iso.fmt)

\* overlap(startA, endA, startB, endB) of clinicOps.ts and of the repository
overlap(startA, endA, startB, endB) ==
    StrLess(startA, endB) /\ StrLess(startB, endA)

startOfDayIso == [ min |-> 0, fmt |-> "ms" ]        \* `${date}T00:00:00.000Z`
endOfDayIso == [ min |-> 1439, fmt |-> "eod" ]      \* `${date}T23:59:59.999Z`

(***************************************************************************)
(* Stores.                                                                 *)
(***************************************************************************)
\* crypto.randomUUID(): an id no record of the collection has
NewId(records) ==
    CHOOSE n \in 1..(Cardinality(records) + 1) : \A r \in records : r.id # n

createAppointmentOncePerSlot(input) ==
    LET same == { a \in appointments :
                    /\ a.provider = input.provider
                    /\ a.startAt = input.startAt /\ a.endAt = input.endAt }
    IN  [ id |-> IF same = {} THEN NewId(appointments)
                 ELSE (CHOOSE a \in same : TRUE).id,
          patientId |-> input.patientId,
          provider |-> input.provider, startAt |-> input.startAt,
          endAt |-> input.endAt,
          status |-> IF input.status = "" THEN "scheduled" ELSE input.status ]

\* MemoryDentalStore.createAppointment
createAppointment(input) ==
    [ id |-> NewId(appointments), patientId |-> input.patientId,
      provider |-> input.provider, startAt |-> input.startAt,
      endAt |-> input.endAt,
      status |-> IF input.status = "" THEN "scheduled" ELSE input.status ]

\* MemoryDentalStore.updateAppointmentStatus: the map afterwards
updateAppointmentStatus(appointmentId, status) ==
    { IF a.id = appointmentId THEN [a EXCEPT !.status = status] ELSE a :
        a \in appointments }

\* MemoryDentalStore.listAppointmentsByRange
listAppointmentsByRange(startAt, endAt, provider) ==
    { a \in appointments :
        /\ StrLess(a.startAt, endAt) /\ StrLess(startAt, a.endAt)
        /\ (provider = "" \/ a.provider = provider) }

\* ClinicOpsService.upsertScheduleBlock: the record built
ScheduleBlockRecord(input) ==
    [ id |-> IF input.blockId = NoId THEN NewId(scheduleBlocks) ELSE input.blockId,
      provider |-> input.provider, startAt |-> input.startAt,
      endAt |-> input.endAt, blockType |-> input.blockType,
      appointmentId |-> input.appointmentId ]

\* MemoryClinicOpsRepository.saveScheduleBlock: Map.set(block.id, block)
saveScheduleBlock(blocks, block) ==
    { b \in blocks : b.id # block.id } \cup { block }

\* MemoryClinicOpsRepository.listScheduleBlocksByProviderInRange
listScheduleBlocksByProviderInRange(provider, startIso, endIso) ==
    { b \in scheduleBlocks :
        b.provider = provider /\ overlap(b.startAt, b.endAt, startIso, endIso) }

(***************************************************************************)
(* Scheduling engine (services/clinicOps.ts).                              *)
(***************************************************************************)
NoNumber == 0 - 1          \* an optional number that is not supplied
DefaultStartHour == 8
DefaultEndHour == 17
DefaultIntervalMinutes == 15
MinutesPerHour == 60

\* The loop of createTimeSlots: it pushes the slot at cursor + k * interval for
\* k = 0, 1, 2, ... for as long as that slot ends no later than `end`.
TimeSlotsFrom(cursor, end, durationMinutes, intervalMinutes) ==
    LET most == IF end > cursor THEN (end - cursor) \div intervalMinutes ELSE 0
        steps == { k \in 0..most :
                     cursor + k * intervalMinutes + durationMinutes <= end }
    IN  [ n \in 1..Cardinality(steps) |->
            [ startAt |-> Iso(cursor + (n - 1) * intervalMinutes),
              endAt |-> Iso(cursor + (n - 1) * intervalMinutes + durationMinutes) ] ]

createTimeSlotsStrict(startIso, endIso, durationMinutes, intervalMinutes) ==
    TimeSlotsFrom(GetTime(startIso), GetTime(endIso) - 1, durationMinutes,
                  intervalMinutes)

\* ClinicOpsService.createTimeSlots
createTimeSlots(startIso, endIso, durationMinutes, intervalMinutes) ==
    TimeSlotsFrom(GetTime(startIso), GetTime(endIso), durationMinutes,
                  intervalMinutes)

SlotRange(input) ==
    LET startHour == IF input.startHour # NoNumber
                     THEN input.startHour ELSE DefaultStartHour
        endHour == IF input.endHour # NoNumber
                   THEN input.endHour ELSE DefaultEndHour
    IN  [ rangeStart |-> Iso(startHour * MinutesPerHour),
          rangeEnd |-> Iso(endHour * MinutesPerHour),
          intervalMinutes |-> IF input.intervalMinutes # 0
                              THEN input.intervalMinutes
                              ELSE DefaultIntervalMinutes ]

BaseSlots(input) ==
    LET range == SlotRange(input)
    IN  createTimeSlots(range.rangeStart, range.rangeEnd, input.durationMinutes,
                        range.intervalMinutes)

\* ClinicOpsService.findOpenSlots
findOpenSlots(input) ==
    LET appts == listAppointmentsByRange(startOfDayIso, endOfDayIso, input.provider)
        providerBlocks ==
            listScheduleBlocksByProviderInRange(input.provider, startOfDayIso,
                                                endOfDayIso)
        availableBlocks == { b \in providerBlocks : b.blockType = "available" }
        blockingBlocks ==
            { b \in providerBlocks : b.blockType \in {"booked", "break", "hold"} }
        Keep(slot) ==
            /\ ~( /\ availableBlocks # {}
                  /\ ~\E block \in availableBlocks :
                        /\ StrLessEq(block.startAt, slot.startAt)
                        /\ StrLessEq(slot.endAt, block.endAt) )
            /\ ~\E appointment \in appts :
                    overlap(slot.startAt, slot.endAt, appointment.startAt,
                            appointment.endAt)
            /\ ~\E block \in blockingBlocks :
                    overlap(slot.startAt, slot.endAt, block.startAt, block.endAt)
    IN  SelectSeq(BaseSlots(input), Keep)

(***************************************************************************)
(* Tools (index.ts): the options each handler passes to runWithAuthAudit.  *)
(***************************************************************************)
Opt(permission, resourceType, requirePurposeOnRead) ==
    [ permission |-> permission, resourceType |-> resourceType,
      requirePurposeOnRead |-> requirePurposeOnRead ]

ToolOptions ==
    [ t \in { "upsert-patient", "search-patients", "upsert-family-member",
              "schedule-appointment", "set-appointment-status",
              "add-provider-schedule-block", "find-open-slots",
              "book-appointment-slot", "ingest-dental-image",
              "analyze-dental-image", "add-insurance-plan",
              "list-insurance-plans", "create-treatment-plan",
              "add-treatment-plan-item", "estimate-treatment-plan",
              "post-ledger-entry", "get-account-snapshot", "add-chart-entry",
              "get-chart", "set-recall", "list-recall-due",
              "add-communication-log", "list-communication-log", "upsert-task",
              "list-tasks", "get-dashboard", "import-opendental-snapshot",
              "list-audit-events", "get-patient-workspace" } |->
        CASE t = "upsert-patient" -> Opt("patient:write", "patient", FALSE)
          [] t = "search-patients" -> Opt("patient:read", "patient", TRUE)
          [] t = "upsert-family-member" -> Opt("patient:write", "family", FALSE)
          [] t = "schedule-appointment" -> Opt("appointment:write", "appointment", FALSE)
          [] t = "set-appointment-status" -> Opt("appointment:write", "appointment", FALSE)
          [] t = "add-provider-schedule-block" ->
               Opt("appointment:write", "schedule-block", FALSE)
          [] t = "find-open-slots" -> Opt("appointment:read", "schedule", FALSE)
          [] t = "book-appointment-slot" -> Opt("appointment:write", "appointment", FALSE)
          [] t = "ingest-dental-image" -> Opt("image:write", "image", FALSE)
          [] t = "analyze-dental-image" -> Opt("image:analyze", "image", FALSE)
          [] t = "add-insurance-plan" -> Opt("insurance:write", "insurance-plan", FALSE)
          [] t = "list-insurance-plans" -> Opt("insurance:read", "insurance-plan", TRUE)
          [] t = "create-treatment-plan" -> Opt("treatment:write", "treatment-plan", FALSE)
          [] t = "add-treatment-plan-item" ->
               Opt("treatment:write", "treatment-plan-item", FALSE)
          [] t = "estimate-treatment-plan" -> Opt("treatment:read", "treatment-plan", TRUE)
          [] t = "post-ledger-entry" -> Opt("ledger:write", "ledger-entry", FALSE)
          [] t = "get-account-snapshot" -> Opt("ledger:read", "ledger", TRUE)
          [] t = "add-chart-entry" -> Opt("chart:write", "chart-entry", FALSE)
          [] t = "get-chart" -> Opt("chart:read", "chart", TRUE)
          [] t = "set-recall" -> Opt("recall:write", "recall", FALSE)
          [] t = "list-recall-due" -> Opt("recall:read", "recall", FALSE)
          [] t = "add-communication-log" ->
               Opt("communication:write", "communication", FALSE)
          [] t = "list-communication-log" ->
               Opt("communication:read", "communication", TRUE)
          [] t = "upsert-task" -> Opt("task:write", "task", FALSE)
          [] t = "list-tasks" -> Opt("task:read", "task", FALSE)
          [] t = "get-dashboard" -> Opt("appointment:read", "dashboard", FALSE)
          [] t = "import-opendental-snapshot" -> Opt("migration:write", "migration", FALSE)
          [] t = "list-audit-events" -> Opt("audit:read", "audit", TRUE)
          [] t = "get-patient-workspace" -> Opt("patient:read", "patient-workspace", TRUE) ]

Tools == DOMAIN ToolOptions

\* the repository maps the model keeps as a count of save calls
Collections ==
    { "family", "image", "insurance-plan", "treatment-plan", "treatment-plan-item",
      "ledger-entry", "chart-entry", "recall", "communication", "task" }

(***************************************************************************)
(* Units of work: what the function passed to runWithAuthAudit does when   *)
(* started in the current state: the error it throws (or NoError), the     *)
(* value it returns and the stores when it ends.                           *)
(***************************************************************************)
Null == [ id |-> NoId ]

Work(thrown, value, p, a, b, r) ==
    [ thrown |-> thrown, value |-> value, patients |-> p, appointments |-> a,
      scheduleBlocks |-> b, repo |-> r ]

Returns(value) == Work(NoError, value, patients, appointments, scheduleBlocks, repo)

Throws(message) ==
    Work(Error(message), Null, patients, appointments, scheduleBlocks, repo)

\* a repository save on one of the counted maps
Saved(collection) ==
    Work(NoError, [id |-> repo[collection] + 1], patients, appointments,
         scheduleBlocks, [repo EXCEPT ![collection] = @ + 1])

\* store.getPatient(patientId) found a record
PatientExists(patientId) == \E p \in patients : p.id = patientId

PatientNotFound == <<"Patient", "not found">>

\* MemoryDentalStore.upsertPatient
upsertPatient(input) ==
    LET patientId == IF input.patientId = NoId THEN NewId(patients) ELSE input.patientId
    IN  Work(NoError, [id |-> patientId],
             { p \in patients : p.id # patientId } \cup { [id |-> patientId] },
             appointments, scheduleBlocks, repo)

\* schedule-appointment: the function passed to the wrapper
scheduleAppointment(input) ==
    IF ~PatientExists(input.patientId)
    THEN Throws(PatientNotFound)
    ELSE LET appointment == createAppointment(input)
         IN  Work(NoError, appointment, patients,
                  appointments \cup {appointment}, scheduleBlocks, repo)

\* set-appointment-status: store.updateAppointmentStatus(appointmentId, status)
setAppointmentStatus(input) ==
    IF ~\E a \in appointments : a.id = input.appointmentId
    THEN Returns(Null)
    ELSE LET updated == updateAppointmentStatus(input.appointmentId, input.status)
         IN  Work(NoError,
                  CHOOSE a \in updated : a.id = input.appointmentId,
                  patients, updated, scheduleBlocks, repo)

\* ClinicOpsService.upsertScheduleBlock
upsertScheduleBlock(input) ==
    LET block == ScheduleBlockRecord(input)
    IN  Work(NoError, block, patients, appointments,
             saveScheduleBlock(scheduleBlocks, block), repo)

\* ClinicOpsService.bookAppointmentFromSlot
bookAppointmentFromSlot(input) ==
    LET appointment == createAppointment([input EXCEPT !.status = "scheduled"])
        block == ScheduleBlockRecord(
                     [ blockId |-> NoId, provider |-> input.provider,
                       startAt |-> input.startAt, endAt |-> input.endAt,
                       blockType |-> "booked", appointmentId |-> appointment.id ])
    IN  Work(NoError, [appointment |-> appointment, scheduleBlock |-> block],
             patients, appointments \cup {appointment},
             saveScheduleBlock(scheduleBlocks, block), repo)

\* ClinicOpsService.importOpenDentalSnapshot, for a snapshot of one new patient
importOpenDentalSnapshot(input) ==
    Work(NoError, [patientsImported |-> 1],
         patients \cup { [id |-> NewId(patients)] }, appointments,
         scheduleBlocks, repo)

UnitOfWork(tool, input) ==
    CASE tool = "upsert-patient" -> upsertPatient(input)
      [] tool = "schedule-appointment" -> scheduleAppointment(input)
      [] tool = "set-appointment-status" -> setAppointmentStatus(input)
      [] tool = "add-provider-schedule-block" -> upsertScheduleBlock(input)
      [] tool = "find-open-slots" -> Returns(findOpenSlots(input))
      [] tool = "book-appointment-slot" -> bookAppointmentFromSlot(input)
      [] tool = "import-opendental-snapshot" -> importOpenDentalSnapshot(input)
      [] tool = "upsert-family-member" ->
           IF PatientExists(input.patientId)
           THEN Saved("family")
           ELSE Throws(<<"Guarantor and member must both exist">>)
      [] tool \in {"ingest-dental-image", "add-insurance-plan", "create-treatment-plan"} ->
           IF PatientExists(input.patientId)
           THEN Saved(ToolOptions[tool].resourceType)
           ELSE Throws(PatientNotFound)
      [] tool = "analyze-dental-image" ->
           IF repo["image"] > 0 THEN Saved("image") ELSE Throws(<<"Image", "not found">>)
      [] tool = "add-treatment-plan-item" ->
           IF repo["treatment-plan"] > 0
           THEN Saved("treatment-plan-item")
           ELSE Throws(<<"Treatment plan", "not found">>)
      [] tool = "estimate-treatment-plan" ->
           IF repo["treatment-plan"] = 0
           THEN Throws(<<"Treatment plan", "not found">>)
           ELSE IF repo["treatment-plan-item"] > 0
           THEN Saved("treatment-plan-item")
           ELSE Returns(Null)
      [] tool \in {"post-ledger-entry", "add-chart-entry", "set-recall",
                   "add-communication-log", "upsert-task"} ->
           Saved(ToolOptions[tool].resourceType)
      [] tool = "get-patient-workspace" ->
           IF PatientExists(input.patientId)
           THEN Returns([id |-> input.patientId])
           ELSE Throws(PatientNotFound)
      [] OTHER -> Returns(Null)

(***************************************************************************)
(* Tool handlers (index.ts).                                               *)
(***************************************************************************)
ValidPurpose == <<"r", "e", "c", "a", "l", "l", "s", "!">>

Actors ==
    { [ userId |-> "u1", role |-> "admin", purpose |-> Undefined ],
      [ userId |-> "u2", role |-> "readonly", purpose |-> ValidPurpose ] }

NoCall ==
    [ tool |-> "", actor |-> [userId |-> "", role |-> "", purpose |-> Undefined],
      permission |-> "", resourceId |-> NoId, requirePurposeOnRead |-> FALSE,
      ran |-> FALSE,
      purposeChecked |-> FALSE, fnThrown |-> NoError, outcome |-> "",
      error |-> NoError, value |-> Null ]

\* the clients that book concurrently, and a client with no booking under way
Callers == { "c1", "c2" }

NoBooking ==
    [ pc |-> "idle", slot |-> [ startAt |-> Iso(0), endAt |-> Iso(0) ],
      appointmentId |-> NoId, error |-> NoError ]

NoBookings == [ c \in Callers |-> NoBooking ]

\* a client with no upsertFamily under way
NoLink == [ pc |-> "idle", input |-> Null, family |-> Null ]

NoLinks == [ c \in Callers |-> NoLink ]

\* no insurance plan and no treatment-plan item stored
NoTreatment == [ insurance |-> <<>>, items |-> <<>> ]

\* the input of the tools of the specification Spec
ToolInput ==
    [ patientId |-> 1, appointmentId |-> 1, status |-> "", blockId |-> NoId,
      provider |-> "dr-a", startAt |-> Iso(540), endAt |-> Iso(570),
      blockType |-> "break", durationMinutes |-> 30, intervalMinutes |-> 0,
      startHour |-> 9, endHour |-> 10, familyId |-> NoId, imageId |-> 1,
      planId |-> 1, itemId |-> NoId, recallId |-> NoId, taskId |-> NoId ]

\* the resourceId each handler passes to runWithAuthAudit
ResourceId(tool, input) ==
    CASE tool \in { "upsert-patient", "get-account-snapshot", "get-chart",
                    "list-communication-log", "get-patient-workspace" } ->
           input.patientId
      [] tool = "upsert-family-member" -> input.familyId
      [] tool = "set-appointment-status" -> input.appointmentId
      [] tool = "add-provider-schedule-block" -> input.blockId
      [] tool = "analyze-dental-image" -> input.imageId
      [] tool \in { "add-insurance-plan", "create-treatment-plan",
                    "estimate-treatment-plan" } -> input.planId
      [] tool = "add-treatment-plan-item" -> input.itemId
      [] tool = "set-recall" -> input.recallId
      [] tool = "upsert-task" -> input.taskId
      [] OTHER -> NoId

\* what the handler throws after the wrapper has returned `value`
AfterWrapper(tool, value) ==
    IF tool = "set-appointment-status" /\ value = Null
    THEN Error(<<"Appointment", "not found">>)
    ELSE NoError

\* One tool invocation, from the request to what its caller receives.  The
\* server takes the next request once the response of this one is delivered.
Handle(tool, actor, input) ==
    LET options == [ actor |-> actor,
                     permission |-> ToolOptions[tool].permission,
                     action |-> tool,
                     resourceType |-> ToolOptions[tool].resourceType,
                     resourceId |-> ResourceId(tool, input),
                     requirePurposeOnRead |-> ToolOptions[tool].requirePurposeOnRead ]
    IN  /\ call.tool = NoCall.tool
        /\ Len(auditLog) < MaxAudit
        /\ \E fn \in { UnitOfWork(tool, input) } :
           \E r \in { runWithAuthAudit(options, fn) } :
           \E after \in { IF r.thrown = NoError
                          THEN AfterWrapper(tool, r.value) ELSE r.thrown } :
            /\ auditLog' = r.events
            /\ patients' = IF r.ran THEN fn.patients ELSE patients
            /\ appointments' = IF r.ran THEN fn.appointments ELSE appointments
            /\ scheduleBlocks' = IF r.ran THEN fn.scheduleBlocks ELSE scheduleBlocks
            /\ repo' = IF r.ran THEN fn.repo ELSE repo
            /\ call' = [ tool |-> tool, actor |-> actor,
                         permission |-> options.permission,
                         resourceId |-> options.resourceId,
                         requirePurposeOnRead |-> options.requirePurposeOnRead,
                         ran |-> r.ran, purposeChecked |-> r.purposeChecked,
                         fnThrown |-> IF r.ran THEN fn.thrown ELSE NoError,
                         outcome |-> IF after = NoError THEN "result" ELSE "error",
                         error |-> after,
                         value |-> IF after = NoError THEN r.value ELSE Null ]
        /\ UNCHANGED <<inFlight, rolePermissions, config>>

UpsertPatient ==
    \E actor \in Actors, id \in {NoId, 1} :
        Handle("upsert-patient", actor, [ToolInput EXCEPT !.patientId = id])

ScheduleAppointment ==
    \E actor \in Actors : Handle("schedule-appointment", actor, ToolInput)

SetAppointmentStatus ==
    \E actor \in Actors :
        Handle("set-appointment-status", actor,
               [ToolInput EXCEPT !.status = "cancelled"])

AddProviderScheduleBlock ==
    \E actor \in Actors : Handle("add-provider-schedule-block", actor, ToolInput)

FindOpenSlots ==
    \E actor \in Actors : Handle("find-open-slots", actor, ToolInput)

BookAppointmentSlot ==
    \E actor \in Actors : Handle("book-appointment-slot", actor, ToolInput)

ImportOpenDentalSnapshot ==
    \E actor \in Actors : Handle("import-opendental-snapshot", actor, ToolInput)

\* the tools whose unit of work saves into one of the counted repository maps
SaveTools ==
    { "upsert-family-member", "ingest-dental-image", "analyze-dental-image",
      "add-insurance-plan", "create-treatment-plan", "add-treatment-plan-item",
      "post-ledger-entry", "add-chart-entry", "set-recall",
      "add-communication-log", "upsert-task" }

\* the tools flagged requirePurposeOnRead
SensitiveReadTools == { t \in Tools : ToolOptions[t].requirePurposeOnRead }

\* the other read tools
PlainReadTools == { "list-recall-due", "list-tasks", "get-dashboard" }

SaveTool ==
    \E tool \in SaveTools, actor \in Actors : Handle(tool, actor, ToolInput)

SensitiveRead ==
    \E tool \in SensitiveReadTools, actor \in Actors : Handle(tool, actor, ToolInput)

PlainRead ==
    \E tool \in PlainReadTools, actor \in Actors : Handle(tool, actor, ToolInput)

\* the handler's result, or the error it threw, is delivered to the client
Respond ==
    /\ call.tool \in Tools
    /\ call' = NoCall
    /\ UNCHANGED <<inFlight, rolePermissions, config, patients, appointments,
                   scheduleBlocks, repo, auditLog>>

Init ==
    /\ rolePermissions = RolePermissionsTable
    /\ config \in { loadConfig(env) : env \in EnvValues }
    /\ patients = {}
    /\ appointments = {}
    /\ scheduleBlocks = {}
    /\ repo = [c \in Collections |-> 0]
    /\ auditLog = <<>>
    /\ bookings = NoBookings
    /\ families = {}
    /\ ledgerEntries = {}
    /\ links = NoLinks
    /\ treatment = NoTreatment
    /\ call = NoCall

Next ==
    \/ UpsertPatient
    \/ ScheduleAppointment
    \/ SetAppointmentStatus
    \/ AddProviderScheduleBlock
    \/ FindOpenSlots
    \/ BookAppointmentSlot
    \/ ImportOpenDentalSnapshot
    \/ SaveTool
    \/ SensitiveRead
    \/ PlainRead
    \/ Respond

Spec == Init /\ [][Next]_vars

(***************************************************************************)
(* requirePurpose on its own, over every purpose string of the bound.      *)
(***************************************************************************)
PurposeChars == { " ", "a" }

PurposeStrings ==
    { Undefined } \cup UNION { [1..n -> PurposeChars] : n \in 0..MaxPurposeLen }

\* a call of requirePurpose not made yet
PendingPurpose(purpose) ==
    [ NoCall EXCEPT !.tool = "pending",
                    !.actor = [ userId |-> "u1", role |-> "admin",
                                purpose |-> purpose ] ]

InitPurpose ==
    /\ rolePermissions = RolePermissionsTable
    /\ config = loadConfig(Undefined)
    /\ patients = {}
    /\ appointments = {}
    /\ scheduleBlocks = {}
    /\ repo = [c \in Collections |-> 0]
    /\ auditLog = <<>>
    /\ bookings = NoBookings
    /\ families = {}
    /\ ledgerEntries = {}
    /\ links = NoLinks
    /\ treatment = NoTreatment
    /\ call \in { PendingPurpose(purpose) : purpose \in PurposeStrings }

RequirePurposeCall ==
    /\ call.tool = "pending"
    /\ \E thrown \in { requirePurpose(call.actor, "sensitive read operation") } :
        call' = [ call EXCEPT !.tool = "requirePurpose", !.purposeChecked = TRUE,
                              !.outcome = IF thrown = NoError
                                          THEN "result" ELSE "error",
                              !.error = thrown ]
    /\ UNCHANGED <<inFlight, rolePermissions, config, patients, appointments,
                   scheduleBlocks, repo, auditLog>>

NextPurpose == RequirePurposeCall

SpecPurpose == InitPurpose /\ [][NextPurpose]_vars

(***************************************************************************)
(* The scheduling engine on its own: the service methods called directly.  *)
(***************************************************************************)
Stamp(min, fmt) == [ min |-> min, fmt |-> fmt ]

BlockInput(provider, blockType, startMin, endMin, fmt) ==
    [ blockId |-> NoId, provider |-> provider, startAt |-> Stamp(startMin, fmt),
      endAt |-> Stamp(endMin, fmt), blockType |-> blockType,
      appointmentId |-> NoId ]

SlotBlockInputs ==
    { BlockInput("dr-a", "available", 540, 600, "ms"),
      BlockInput("dr-a", "available", 540, 600, "s"),
      BlockInput("dr-a", "available", 570, 630, "ms"),
      BlockInput("dr-a", "available", 540, 720, "+02:00"),
      BlockInput("dr-a", "booked", 570, 600, "ms"),
      BlockInput("dr-a", "booked", 570, 600, "s"),
      BlockInput("dr-a", "break", 600, 630, "ms"),
      BlockInput("dr-a", "hold", 540, 570, "s"),
      BlockInput("dr-b", "booked", 540, 630, "ms") }

SlotAppointmentInputs ==
    { [ patientId |-> 1, provider |-> "dr-a", startAt |-> Stamp(540, fmt),
        endAt |-> Stamp(570, fmt), status |-> "" ] : fmt \in { "ms", "s" } }
    \cup
    { [ patientId |-> 1, provider |-> "dr-b", startAt |-> Stamp(540, "ms"),
        endAt |-> Stamp(630, "ms"), status |-> "" ] }

FindInput(durationMinutes, intervalMinutes, startHour, endHour) ==
    [ provider |-> "dr-a", durationMinutes |-> durationMinutes,
      intervalMinutes |-> intervalMinutes, startHour |-> startHour,
      endHour |-> endHour ]

SlotFindInputs ==
    { FindInput(30, 30, 9, 11), FindInput(60, 30, NoNumber, 11),
      FindInput(30, 0, 9, 10), FindInput(45, 15, 9, 11) }

\* ClinicOpsService.upsertScheduleBlock called on the service
SlotsUpsertScheduleBlock ==
    \E input \in SlotBlockInputs :
        /\ Cardinality(scheduleBlocks) < MaxBlocks
        /\ scheduleBlocks' = upsertScheduleBlock(input).scheduleBlocks
        /\ call' = [ NoCall EXCEPT !.tool = "upsertScheduleBlock",
                                   !.ran = TRUE, !.outcome = "result" ]
        /\ UNCHANGED <<inFlight, rolePermissions, config, patients, appointments, repo,
                       auditLog>>

\* store.createAppointment called on the store
SlotsCreateAppointment ==
    \E input \in SlotAppointmentInputs :
        /\ Cardinality(appointments) < MaxSlotAppointments
        /\ appointments' = appointments \cup { createAppointment(input) }
        /\ call' = [ NoCall EXCEPT !.tool = "createAppointment",
                                   !.ran = TRUE, !.outcome = "result" ]
        /\ UNCHANGED <<inFlight, rolePermissions, config, patients, scheduleBlocks, repo,
                       auditLog>>

\* ClinicOpsService.findOpenSlots called on the service
FindOpenSlotsCall(input) ==
    /\ call' = [ NoCall EXCEPT !.tool = "findOpenSlots", !.ran = TRUE,
                               !.outcome = "result",
                               !.value = [ input |-> input,
                                           slots |-> findOpenSlots(input) ] ]
    /\ UNCHANGED <<inFlight, rolePermissions, config, patients, appointments,
                   scheduleBlocks, repo, auditLog>>

SlotsFindOpenSlots == \E input \in SlotFindInputs : FindOpenSlotsCall(input)

NextSlots ==
    \/ SlotsUpsertScheduleBlock
    \/ SlotsCreateAppointment
    \/ SlotsFindOpenSlots

InitSlots ==
    /\ rolePermissions = RolePermissionsTable
    /\ config = loadConfig(Undefined)
    /\ patients = {}
    /\ appointments = {}
    /\ scheduleBlocks = {}
    /\ repo = [c \in Collections |-> 0]
    /\ auditLog = <<>>
    /\ bookings = NoBookings
    /\ families = {}
    /\ ledgerEntries = {}
    /\ links = NoLinks
    /\ treatment = NoTreatment
    /\ call = NoCall

SpecSlots == InitSlots /\ [][NextSlots]_vars

(***************************************************************************)
(* findOpenSlots on an empty schedule, over a grid of accepted inputs.     *)
(***************************************************************************)
GridDurations == { 5, 30, 45, 50, 480 }
GridIntervals == { 0, 5, 25, 60 }
GridStartHours == { NoNumber, 0, 9, 16, 23 }
GridEndHours == { NoNumber, 1, 9, 10, 24 }

GridInputs ==
    { FindInput(d, i, sh, eh) :
        d \in GridDurations, i \in GridIntervals, sh \in GridStartHours,
        eh \in GridEndHours }

InitGrid ==
    /\ rolePermissions = RolePermissionsTable
    /\ config = loadConfig(Undefined)
    /\ patients = {}
    /\ appointments = {}
    /\ scheduleBlocks = {}
    /\ repo = [c \in Collections |-> 0]
    /\ auditLog = <<>>
    /\ bookings = NoBookings
    /\ families = {}
    /\ ledgerEntries = {}
    /\ links = NoLinks
    /\ treatment = NoTreatment
    /\ call \in { [ NoCall EXCEPT !.tool = "pending",
                                  !.value = [ input |-> input, slots |-> <<>> ] ] :
                    input \in GridInputs }

GridFindOpenSlots ==
    /\ call.tool = "pending"
    /\ FindOpenSlotsCall(call.value.input)

NextGrid == GridFindOpenSlots

SpecGrid == InitGrid /\ [][NextGrid]_vars

(***************************************************************************)
(* Booking a slot, step by step: two clients each look for an open slot    *)
(* and book it through the book-appointment-slot tool.  The handler gives  *)
(* up control at each await on the stores, so the steps of the two calls   *)
(* interleave.  The schedule-block save may be rejected by the remote      *)
(* store (CloudflareClinicOpsRepository.query throws).                     *)
(***************************************************************************)
BookingActor == [ userId |-> "u1", role |-> "admin", purpose |-> Undefined ]

BookingFindInput == FindInput(30, 30, 9, 10)

BookingOptions(tool) ==
    [ actor |-> BookingActor, permission |-> ToolOptions[tool].permission,
      action |-> tool, resourceType |-> ToolOptions[tool].resourceType,
      resourceId |-> NoId,
      requirePurposeOnRead |-> ToolOptions[tool].requirePurposeOnRead ]

\* the input of book-appointment-slot for the slot a client found
BookingInput(c) ==
    [ patientId |-> 1, provider |-> BookingFindInput.provider,
      startAt |-> bookings[c].slot.startAt, endAt |-> bookings[c].slot.endAt ]

\* bookAppointmentFromSlot: what it passes to store.createAppointment
ScheduledAppointmentInput(input) ==
    [ patientId |-> input.patientId, provider |-> input.provider,
      startAt |-> input.startAt, endAt |-> input.endAt, status |-> "scheduled" ]

BookedBlockInputUnlinked(input, appointment) ==
    [ blockId |-> NoId, provider |-> input.provider, startAt |-> input.startAt,
      endAt |-> input.endAt, blockType |-> "booked", appointmentId |-> NoId ]

\* bookAppointmentFromSlot: what it passes to upsertScheduleBlock
BookedBlockInput(input, appointment) ==
    [ blockId |-> NoId, provider |-> input.provider, startAt |-> input.startAt,
      endAt |-> input.endAt, blockType |-> "booked",
      appointmentId |-> appointment.id ]

\* the message of the error a rejected remote store request throws
StoreFailure == <<"Cloudflare D1 request failed">>

\* find-open-slots: the client keeps one of the slots returned
BookingFindOpenSlots(c) ==
    /\ bookings[c].pc = "idle"
    /\ \E r \in { runWithAuthAudit(BookingOptions("find-open-slots"),
                                   Returns(findOpenSlots(BookingFindInput))) } :
          /\ r.thrown = NoError
          /\ auditLog' = r.events
          /\ \E k \in DOMAIN r.value :
                bookings' = [bookings EXCEPT ![c].pc = "found",
                                             ![c].slot = r.value[k]]
    /\ UNCHANGED <<rolePermissions, config, patients, appointments,
                   scheduleBlocks, repo, call, clinicOps>>

\* book-appointment-slot up to the first await of the schedule-block save:
\* the wrapper authorizes, the appointment is created
BookingCreateAppointment(c) ==
    /\ bookings[c].pc = "found"
    /\ assertAuthorized(BookingActor, "appointment:write") = NoError
    /\ \E appointment \in
            { createAppointment(ScheduledAppointmentInput(BookingInput(c))) } :
          /\ appointments' = appointments \cup { appointment }
          /\ bookings' = [bookings EXCEPT ![c].pc = "created",
                                          ![c].appointmentId = appointment.id]
    /\ UNCHANGED <<rolePermissions, config, patients, scheduleBlocks, repo,
                   auditLog, call, clinicOps>>

\* the schedule-block save succeeds; the wrapper logs and the handler returns
BookingSaveScheduleBlock(c) ==
    /\ bookings[c].pc = "created"
    /\ \E appointment \in { a \in appointments : a.id = bookings[c].appointmentId } :
       \E block \in { ScheduleBlockRecord(BookedBlockInput(BookingInput(c),
                                                          appointment)) } :
       \E r \in { runWithAuthAudit(
                      BookingOptions("book-appointment-slot"),
                      Work(NoError, [appointment |-> appointment,
                                     scheduleBlock |-> block],
                           patients, appointments,
                           saveScheduleBlock(scheduleBlocks, block), repo)) } :
          /\ scheduleBlocks' = saveScheduleBlock(scheduleBlocks, block)
          /\ auditLog' = r.events
          /\ bookings' = [bookings EXCEPT ![c].pc = "booked",
                                          ![c].error = r.thrown]
    /\ UNCHANGED <<rolePermissions, config, patients, appointments, repo, call,
                   clinicOps>>

\* the schedule-block save is rejected: bookAppointmentFromSlot throws, the
\* wrapper logs the failure and rethrows
BookingSaveFails(c) ==
    /\ bookings[c].pc = "created"
    /\ \E r \in { runWithAuthAudit(BookingOptions("book-appointment-slot"),
                                   Throws(StoreFailure)) } :
          /\ auditLog' = r.events
          /\ bookings' = [bookings EXCEPT ![c].pc = "failed",
                                          ![c].error = r.thrown]
    /\ UNCHANGED <<rolePermissions, config, patients, appointments,
                   scheduleBlocks, repo, call, clinicOps>>

NextBooking ==
    \E c \in Callers :
        \/ BookingFindOpenSlots(c)
        \/ BookingCreateAppointment(c)
        \/ BookingSaveScheduleBlock(c)
        \/ BookingSaveFails(c)

InitBooking ==
    /\ rolePermissions = RolePermissionsTable
    /\ config = loadConfig(Undefined)
    /\ patients = { [id |-> 1] }
    /\ appointments = {}
    /\ scheduleBlocks \in
          { {}, { ScheduleBlockRecord(
                      [ BlockInput("dr-a", "available", 540, 600, "ms")
                            EXCEPT !.blockId = 1 ]) } }
    /\ repo = [c \in Collections |-> 0]
    /\ auditLog = <<>>
    /\ call = NoCall
    /\ bookings = NoBookings
    /\ families = {}
    /\ ledgerEntries = {}
    /\ links = NoLinks
    /\ treatment = NoTreatment

SpecBooking == InitBooking /\ [][NextBooking]_vars

(***************************************************************************)
(* Pure functions of the service, applied to an input drawn at the start.  *)
(***************************************************************************)
\* the server after construction, before any request
FreshServer ==
    /\ rolePermissions = RolePermissionsTable
    /\ config = loadConfig(Undefined)
    /\ patients = {}
    /\ appointments = {}
    /\ scheduleBlocks = {}
    /\ repo = [c \in Collections |-> 0]
    /\ auditLog = <<>>
    /\ bookings = NoBookings
    /\ families = {}
    /\ ledgerEntries = {}
    /\ links = NoLinks
    /\ treatment = NoTreatment

\* a call of `tool` on `input` that has not been made yet
Pending(tool, input) ==
    [ NoCall EXCEPT !.tool = "pending", !.permission = tool, !.value = input ]

\* the call made: call.value holds the input and what the function returned
Apply(tool, result) ==
    /\ call.tool = "pending"
    /\ call.permission = tool
    /\ call' = [ call EXCEPT !.tool = tool, !.ran = TRUE, !.outcome = "result",
                             !.value = [ input |-> call.value,
                                         result |-> result ] ]
    /\ UNCHANGED <<inFlight, rolePermissions, config, patients, appointments,
                   scheduleBlocks, repo, auditLog>>

(***************************************************************************)
(* estimateCategoryFromAdaCode (services/clinicOps.ts).                    *)
(***************************************************************************)
MaxCodeLen == 3        \* longest procedure code enumerated

UpperChar(c) == CASE c = "d" -> "D" [] c = "t" -> "T" [] OTHER -> c

\* String.prototype.toUpperCase
ToUpperCase(s) == [i \in DOMAIN s |-> UpperChar(s[i])]

\* String.prototype.startsWith
StartsWith(s, prefix) ==
    /\ Len(s) >= Len(prefix)
    /\ SubSeq(s, 1, Len(prefix)) = prefix

estimateCategoryFromAdaCodeCaseSensitive(adaCode) ==
    LET code == adaCode
    IN  IF StartsWith(code, <<"D", "1">>) \/ StartsWith(code, <<"T", "1">>)
        THEN "preventive"
        ELSE IF \/ StartsWith(code, <<"D", "3">>) \/ StartsWith(code, <<"T", "3">>)
                \/ StartsWith(code, <<"D", "2">>)
        THEN "restorative"
        ELSE IF StartsWith(code, <<"D", "4">>) THEN "periodontal"
        ELSE IF StartsWith(code, <<"D", "7">>) THEN "oralSurgery"
        ELSE IF StartsWith(code, <<"D", "5">>) \/ StartsWith(code, <<"D", "6">>)
        THEN "prosthodontics"
        ELSE "restorative"

estimateCategoryFromAdaCode(adaCode) ==
    LET code == ToUpperCase(adaCode)
    IN  IF StartsWith(code, <<"D", "1">>) \/ StartsWith(code, <<"T", "1">>)
        THEN "preventive"
        ELSE IF \/ StartsWith(code, <<"D", "3">>) \/ StartsWith(code, <<"T", "3">>)
                \/ StartsWith(code, <<"D", "2">>)
        THEN "restorative"
        ELSE IF StartsWith(code, <<"D", "3", "3">>)
                \/ StartsWith(code, <<"D", "3", "4">>)
        THEN "endodontic"
        ELSE IF StartsWith(code, <<"D", "4">>) THEN "periodontal"
        ELSE IF StartsWith(code, <<"D", "7">>) THEN "oralSurgery"
        ELSE IF StartsWith(code, <<"D", "2", "7">>) THEN "crowns"
        ELSE IF StartsWith(code, <<"D", "5">>) \/ StartsWith(code, <<"D", "6">>)
        THEN "prosthodontics"
        ELSE "restorative"

CodeChars == { "D", "d", "T", "t", "1", "2", "3", "4", "5", "6", "7", "X" }

AdaCodes ==
    UNION { [1..n -> CodeChars] : n \in 0..MaxCodeLen }

InitCategory ==
    /\ FreshServer
    /\ call \in { Pending("estimateCategoryFromAdaCode", code) : code \in AdaCodes }

EstimateCategoryCall ==
    Apply("estimateCategoryFromAdaCode", estimateCategoryFromAdaCode(call.value))

NextCategory == EstimateCategoryCall

SpecCategory == InitCategory /\ [][NextCategory]_vars

(***************************************************************************)
(* estimateTreatmentPlan (services/clinicOps.ts).  Money is in cents and   *)
(* exact: an intermediate amount is an integer number of 1/10000 cent, and *)
(* toFixed(2) rounds it to the nearest cent, a tie going away from zero.   *)
(* remainingAfterPrimary is a whole number of 1/100 cent, so the division  *)
(* by 100 in secondaryEstimate is taken first and is exact.                *)
(* An optional number is <<>> when absent and <<n>> when present.          *)
(***************************************************************************)
\* the keys of InsurancePlanRecord.benefitPercentages
Categories ==
    { "preventive", "restorative", "endodontic", "periodontal", "oralSurgery",
      "crowns", "prosthodontics" }

Absent == <<>>

Max(a, b) == IF a >= b THEN a ELSE b

Min(a, b) == IF a <= b THEN a ELSE b

clampPercentUnclamped(value, fallback) ==
    IF value = Absent THEN fallback ELSE value[1]

clampPercent(value, fallback) ==
    IF value = Absent THEN fallback ELSE Max(0, Min(100, value[1]))

\* 1/10000 cent per cent
Scale == 100 * 100

ToFixed2Up(x) == (x + Scale - 1) \div Scale

\* Number(x.toFixed(2)) of an amount of x/Scale cents: the cents
ToFixed2(x) ==
    IF x >= 0 THEN (x + Scale \div 2) \div Scale
    ELSE 0 - (((0 - x) + Scale \div 2) \div Scale)

\* insurance.find((plan) => plan.tier === tier): <<>> or <<plan>>
FindTier(insurance, tier) ==
    LET found == { i \in DOMAIN insurance : insurance[i].tier = tier }
    IN  IF found = {} THEN Absent
        ELSE << insurance[CHOOSE i \in found : \A j \in found : i <= j] >>

\* plan?.benefitPercentages?.[category]
BenefitOf(plan, category) ==
    IF plan = Absent THEN Absent ELSE plan[1].benefitPercentages[category]

EstimateItemFromSavedShare(item, primary, secondary) ==
    LET category == estimateCategoryFromAdaCode(item.adaCode)
        allowed == IF item.allowedFee # Absent THEN item.allowedFee[1] ELSE item.fee
        primaryEstimate ==
            allowed * clampPercent(BenefitOf(primary, category), 0) * 100
        patientEstimate == Max(0, item.patientEst * Scale - primaryEstimate)
    IN  [ item EXCEPT !.insuranceEstPrimary = ToFixed2(primaryEstimate),
                      !.insuranceEstSecondary = 0,
                      !.patientEst = ToFixed2(patientEstimate) ]

\* the item estimateTreatmentPlan saves for one source item
EstimateItem(item, primary, secondary) ==
    LET category == estimateCategoryFromAdaCode(item.adaCode)
        allowed == IF item.allowedFee # Absent THEN item.allowedFee[1] ELSE item.fee
        primaryPct == clampPercent(BenefitOf(primary, category), 0)
        primaryEstimate == allowed * primaryPct * 100
        remainingAfterPrimary == Max(0, allowed * Scale - primaryEstimate)
        secondaryPct == clampPercent(BenefitOf(secondary, category), 0)
        secondaryEstimate == (remainingAfterPrimary \div 100) * secondaryPct
        patientEstimate ==
            Max(0, item.fee * Scale - primaryEstimate - secondaryEstimate)
    IN  [ item EXCEPT !.insuranceEstPrimary = ToFixed2(primaryEstimate),
                      !.insuranceEstSecondary = ToFixed2(secondaryEstimate),
                      !.patientEst = ToFixed2(patientEstimate) ]

\* ClinicOpsService.estimateTreatmentPlan for a plan that exists: the items
\* saved (in the order listed)
estimateTreatmentPlan(insurance, sourceItems) ==
    LET primary == FindTier(insurance, "primary")
        secondary == FindTier(insurance, "secondary")
    IN  [ k \in DOMAIN sourceItems |->
            EstimateItem(sourceItems[k], primary, secondary) ]

\* addTreatmentPlanItem: the item as first saved
TreatmentPlanItem(adaCode, fee, allowedFee) ==
    [ adaCode |-> adaCode, fee |-> fee, allowedFee |-> allowedFee,
      insuranceEstPrimary |-> 0, insuranceEstSecondary |-> 0, patientEst |-> fee ]

InsurancePlan(tier, benefits) ==
    [ tier |-> tier, benefitPercentages |-> benefits ]

\* benefit tables: the defaults of upsertInsurancePlan, tables read back from a
\* store with out-of-range or missing percentages, and 80% / 50% throughout
BenefitTables ==
    { [ c \in Categories |->
          IF c = "preventive" THEN <<100>>
          ELSE IF c \in {"crowns", "prosthodontics"} THEN <<50>> ELSE <<80>> ],
      [ c \in Categories |-> <<150>> ],
      [ c \in Categories |-> IF c = "preventive" THEN <<0 - 10>> ELSE Absent ],
      [ c \in Categories |-> <<80>> ],
      [ c \in Categories |-> <<50>> ] }

InsuranceLists ==
    { <<>> }
    \cup { << InsurancePlan(tier, b) >> :
             tier \in {"primary", "secondary"}, b \in BenefitTables }
    \cup { << InsurancePlan("primary", b1), InsurancePlan("secondary", b2) >> :
             b1 \in BenefitTables, b2 \in BenefitTables }

EstimateItems ==
    { TreatmentPlanItem(code, fee, allowedFee) :
        code \in { <<"D", "1">>, <<"d", "2", "7">>, <<"X">> },
        fee \in { 100000, 1005, 0 },
        allowedFee \in { Absent, <<80000>>, <<0>>, <<120000>> } }

InitEstimate ==
    /\ FreshServer
    /\ call \in { Pending("estimateTreatmentPlan",
                          [ insurance |-> insurance, items |-> <<item>> ]) :
                    insurance \in InsuranceLists, item \in EstimateItems }

EstimateTreatmentPlanCall ==
    Apply("estimateTreatmentPlan",
          estimateTreatmentPlan(call.value.insurance, call.value.items))

NextEstimate == EstimateTreatmentPlanCall

SpecEstimate == InitEstimate /\ [][NextEstimate]_vars

(***************************************************************************)
(* The ledger (services/clinicOps.ts): postLedgerEntry and                 *)
(* getAccountSnapshot.  An amount a caller posts is a number of 1/10000    *)
(* cent; a stored amount is in cents.  An entry date is [valid, ago]: ago  *)
(* is the half days between the date and Date.now(), negative in the       *)
(* future, and valid is FALSE for a string that new Date() cannot parse.   *)
(***************************************************************************)
MaxLedger == 3         \* ledger entries posted

LedgerEntryTypes ==
    { "charge", "payment", "adjustment", "claim", "insurance-payment" }

AgingBuckets == { "0-30", "31-60", "61-90", "over-90" }

HalfDaysPerDay == 2

EntryDate(ago) == [ valid |-> TRUE, ago |-> ago ]

\* nowIso()
NowIso == EntryDate(0)

InvalidDate == [ valid |-> FALSE, ago |-> 0 ]

bucketByAgeExclusive(entryDate) ==
    LET ageDays == entryDate.ago \div HalfDaysPerDay
    IN  IF ~entryDate.valid THEN "over-90"
        ELSE IF ageDays < 30 THEN "0-30"
        ELSE IF ageDays < 60 THEN "31-60"
        ELSE IF ageDays < 90 THEN "61-90"
        ELSE "over-90"

\* with an unparsable date ageDays is NaN and every comparison fails
bucketByAge(entryDate) ==
    LET ageDays == entryDate.ago \div HalfDaysPerDay
    IN  IF ~entryDate.valid THEN "over-90"
        ELSE IF ageDays <= 30 THEN "0-30"
        ELSE IF ageDays <= 60 THEN "31-60"
        ELSE IF ageDays <= 90 THEN "61-90"
        ELSE "over-90"

\* ClinicOpsService.postLedgerEntry: the record saved
LedgerEntryRecord(input) ==
    [ id |-> NewId(ledgerEntries), patientId |-> input.patientId,
      type |-> input.type, amount |-> ToFixed2(input.amount),
      entryDate |-> IF input.entryDate = Absent THEN NowIso
                    ELSE input.entryDate[1] ]

listLedgerEntriesOfAll(patientId) == ledgerEntries

\* MemoryClinicOpsRepository.listLedgerEntriesByPatient
listLedgerEntriesByPatient(patientId) ==
    { entry \in ledgerEntries : entry.patientId = patientId }

\* the running sum of `amount` over the entries the loop visits
RECURSIVE SumAmounts(_)
SumAmounts(entries) ==
    IF entries = {} THEN 0
    ELSE LET entry == CHOOSE e \in entries : TRUE
         IN  entry.amount + SumAmounts(entries \ {entry})

\* ClinicOpsService.getAccountSnapshot
getAccountSnapshot(patientId) ==
    LET entries == listLedgerEntriesByPatient(patientId)
        aged == { e \in entries : e.type \in {"charge", "adjustment"} }
        charges == SumAmounts(aged)
        credits == SumAmounts({ e \in entries :
                                  e.type \in {"payment", "insurance-payment"} })
        pendingInsurance == SumAmounts({ e \in entries : e.type = "claim" })
    IN  [ entries |-> entries,
          aging |-> [ b \in AgingBuckets |->
                        ToFixed2(SumAmounts({ e \in aged :
                                   bucketByAge(e.entryDate) = b }) * Scale) ],
          totals |-> [ charges |-> ToFixed2(charges * Scale),
                       credits |-> ToFixed2(credits * Scale),
                       pendingInsurance |-> ToFixed2(pendingInsurance * Scale),
                       estimatedBalance |->
                           ToFixed2((charges - credits - pendingInsurance)
                                    * Scale) ] ]

LedgerInput(patientId, type, amount, entryDate) ==
    [ patientId |-> patientId, type |-> type, amount |-> amount,
      entryDate |-> entryDate ]

\* what post-ledger-entry is called with; 1000000 is 1.00
LedgerInputs ==
    { LedgerInput(1, "charge", 100 * 1000000, << EntryDate(45 * 2) >>),
      LedgerInput(1, "payment", 40 * 1000000, Absent),
      LedgerInput(1, "adjustment", 12344000, << EntryDate(61) >>),
      LedgerInput(1, "adjustment", 0 - 30 * 1000000, << EntryDate(62) >>),
      LedgerInput(1, "claim", 25 * 1000000, << EntryDate(10) >>),
      LedgerInput(1, "insurance-payment", 15 * 1000000, << EntryDate(182) >>),
      LedgerInput(1, "charge", 50 * 1000000, << EntryDate(182) >>),
      LedgerInput(1, "charge", 20 * 1000000, << EntryDate(181) >>),
      LedgerInput(1, "charge", 7 * 1000000, << EntryDate(121) >>),
      LedgerInput(1, "charge", 3 * 1000000, << EntryDate(0 - 4) >>),
      LedgerInput(1, "charge", 9 * 1000000, << InvalidDate >>),
      LedgerInput(2, "charge", 70 * 1000000, << EntryDate(0) >>),
      LedgerInput(2, "payment", 5 * 1000000, << EntryDate(62) >>) }

PostLedgerEntry(input) ==
    /\ call.tool = NoCall.tool
    /\ Cardinality(ledgerEntries) < MaxLedger
    /\ ledgerEntries' = ledgerEntries \cup { LedgerEntryRecord(input) }
    /\ UNCHANGED <<treatment, bookings, families, links, rolePermissions, config, patients,
                   appointments, scheduleBlocks, repo, auditLog, call>>

GetAccountSnapshot(patientId) ==
    /\ call.tool = NoCall.tool
    /\ call' = [ NoCall EXCEPT
                   !.tool = "get-account-snapshot", !.ran = TRUE,
                   !.outcome = "result",
                   !.value = [ input |-> [ patientId |-> patientId ],
                               result |-> getAccountSnapshot(patientId) ] ]
    /\ UNCHANGED <<inFlight, rolePermissions, config, patients, appointments,
                   scheduleBlocks, repo, auditLog>>

InitLedger == FreshServer /\ call = NoCall

NextLedger ==
    \/ \E input \in LedgerInputs : PostLedgerEntry(input)
    \/ \E patientId \in {1, 2} : GetAccountSnapshot(patientId)
    \/ Respond

SpecLedger == InitLedger /\ [][NextLedger]_vars

(***************************************************************************)
(* Families (services/clinicOps.ts): upsertFamily over the families map.   *)
(* A family is [id, guarantorPatientId, members], members in the order of  *)
(* the array; createdAt and updatedAt are left out.                        *)
(***************************************************************************)
\* findFamilyById / findFamilyByGuarantor: <<>> or <<family>>
findFamilyById(fams, familyId) ==
    LET found == { f \in fams : f.id = familyId }
    IN  IF found = {} THEN Absent ELSE << CHOOSE f \in found : TRUE >>

findFamilyByGuarantor(fams, guarantorPatientId) ==
    LET found == { f \in fams : f.guarantorPatientId = guarantorPatientId }
    IN  IF found = {} THEN Absent ELSE << CHOOSE f \in found : TRUE >>

FamilyMemberAllGuarantors(patientId, relation, isGuarantor) ==
    [ patientId |-> patientId, relationToGuarantor |-> relation,
      isGuarantor |-> TRUE ]

FamilyMember(patientId, relation, isGuarantor) ==
    [ patientId |-> patientId, relationToGuarantor |-> relation,
      isGuarantor |-> isGuarantor ]

LinkMemberAppend(members, input) ==
    Append(members,
           FamilyMember(input.memberPatientId, input.relationToGuarantor, FALSE))

\* family.members.find(...) and the update of the entry found, or the push
LinkMember(members, input) ==
    IF \E k \in DOMAIN members : members[k].patientId = input.memberPatientId
    THEN LET first == CHOOSE k \in DOMAIN members :
                        /\ members[k].patientId = input.memberPatientId
                        /\ \A j \in DOMAIN members :
                              members[j].patientId = input.memberPatientId
                              => k <= j
         IN  [ members EXCEPT
                 ![first].relationToGuarantor = input.relationToGuarantor ]
    ELSE Append(members,
                FamilyMember(input.memberPatientId, input.relationToGuarantor,
                             FALSE))

\* ClinicOpsService.upsertFamily started with the families `fams`: the error
\* thrown, the family returned and the families map when it ends; uuid is
\* what crypto.randomUUID() returns
upsertFamilyWithId(fams, input, uuid) ==
    IF ~PatientExists(input.guarantorPatientId)
       \/ ~PatientExists(input.memberPatientId)
    THEN [ error |-> <<"Guarantor and member must both exist">>,
           family |-> Null, families |-> fams ]
    ELSE LET byId == IF input.familyId # NoId
                     THEN findFamilyById(fams, input.familyId) ELSE Absent
             found == IF byId # Absent THEN byId
                      ELSE findFamilyByGuarantor(fams, input.guarantorPatientId)
             family ==
                 IF found # Absent THEN found[1]
                 ELSE [ id |-> IF input.familyId # NoId THEN input.familyId
                               ELSE uuid,
                        guarantorPatientId |-> input.guarantorPatientId,
                        members |-> << FamilyMember(input.guarantorPatientId,
                                                    "self", TRUE) >> ]
             saved == [ family EXCEPT !.members = LinkMember(@, input) ]
         IN  [ error |-> NoError, family |-> saved,
               families |-> { f \in fams : f.id # saved.id } \cup { saved } ]

upsertFamily(fams, input) == upsertFamilyWithId(fams, input, NewId(fams))

\* a family id a caller chooses itself
CallerFamilyId == 9

\* what upsert-family-member is called with; patient 4 is not in the store
FamilyInputs ==
    [ familyId : { NoId, CallerFamilyId }, guarantorPatientId : { 1, 2, 4 },
      memberPatientId : { 2, 3 }, relationToGuarantor : { "child", "spouse" } ]

UpsertFamilyMember(input) ==
    /\ \E done \in { upsertFamily(families, input) } :
          /\ families' = done.families
          /\ call' = [ NoCall EXCEPT
                         !.tool = "upsert-family-member", !.ran = TRUE,
                         !.error = done.error,
                         !.outcome = IF done.error = NoError THEN "result"
                                     ELSE "error",
                         !.value = [ input |-> input, result |-> done.family ] ]
    /\ UNCHANGED <<treatment, bookings, ledgerEntries, links, rolePermissions, config, patients,
                   appointments, scheduleBlocks, repo, auditLog>>

InitFamily ==
    /\ rolePermissions = RolePermissionsTable
    /\ config = loadConfig(Undefined)
    /\ patients = { [ id |-> 1 ], [ id |-> 2 ], [ id |-> 3 ] }
    /\ appointments = {}
    /\ scheduleBlocks = {}
    /\ repo = [c \in Collections |-> 0]
    /\ auditLog = <<>>
    /\ bookings = NoBookings
    /\ families = {}
    /\ ledgerEntries = {}
    /\ links = NoLinks
    /\ treatment = NoTreatment
    /\ call = NoCall

\* importOpenDentalSnapshot: the link made for a snapshot patient whose
\* guarantorPatNum names another snapshot patient, both saved just before
ImportFamilyLink(guarantorId, memberId) ==
    /\ guarantorId # memberId
    /\ PatientExists(guarantorId) /\ PatientExists(memberId)
    /\ UpsertFamilyMember([ familyId |-> NoId, guarantorPatientId |-> guarantorId,
                            memberPatientId |-> memberId,
                            relationToGuarantor |-> "family" ])

NextFamily ==
    \/ \E input \in FamilyInputs : UpsertFamilyMember(input)
    \/ \E guarantorId \in {1, 2}, memberId \in {2, 3} :
          ImportFamilyLink(guarantorId, memberId)

SpecFamily == InitFamily /\ [][NextFamily]_vars

(***************************************************************************)
(* The SQL store of the clinic operations (store/cloudflareClinicOps-       *)
(* Repository.ts): a record saved by saveTask / saveRecall and read back    *)
(* through mapTask / mapRecall.  A row is the record of its columns; the   *)
(* table holds no row or one row with the id saved.                        *)
(***************************************************************************)
SqlNull == <<"null">>

\* value || null, as bound to a statement
OrNull(value) == IF value = Undefined \/ value = <<>> THEN SqlNull ELSE value

\* row.column || undefined
OrUndefined(column) ==
    IF column = SqlNull \/ column = <<>> THEN Undefined ELSE column

\* the values bound by saveTask
TaskRow(task) ==
    [ id |-> task.id, patient_id |-> OrNull(task.patientId),
      title |-> task.title,
      details_ciphertext |-> OrNull(task.detailsCiphertext),
      assigned_to |-> OrNull(task.assignedTo), due_at |-> OrNull(task.dueAt),
      priority |-> task.priority, status |-> task.status,
      created_by |-> task.createdBy, created_at |-> task.createdAt,
      updated_at |-> task.updatedAt ]

\* saveTask: the row of the id after the statement; ON CONFLICT(id) sets every
\* other column from the values bound
saveTask(existing, task) == TaskRow(task)

mapTask(row) ==
    [ id |-> row.id, patientId |-> OrUndefined(row.patient_id),
      title |-> row.title,
      detailsCiphertext |-> OrUndefined(row.details_ciphertext),
      assignedTo |-> OrUndefined(row.assigned_to),
      dueAt |-> OrUndefined(row.due_at),
      priority |-> row.priority, status |-> row.status,
      createdBy |-> row.created_by, createdAt |-> row.created_at,
      updatedAt |-> row.updated_at ]

\* the values bound by saveRecall
RecallRow(recall) ==
    [ id |-> recall.id, patient_id |-> recall.patientId,
      recall_type |-> recall.recallType,
      interval_months |-> recall.intervalMonths,
      last_visit_date |-> OrNull(recall.lastVisitDate),
      due_date |-> recall.dueDate, status |-> recall.status,
      created_at |-> recall.createdAt, updated_at |-> recall.updatedAt ]

\* saveRecall: ON CONFLICT(id) sets every column but created_at
saveRecall(existing, recall) ==
    IF existing = Absent THEN RecallRow(recall)
    ELSE [ RecallRow(recall) EXCEPT !.created_at = existing[1].created_at ]

mapRecall(row) ==
    [ id |-> row.id, patientId |-> row.patient_id,
      recallType |-> row.recall_type, intervalMonths |-> row.interval_months,
      lastVisitDate |-> OrUndefined(row.last_visit_date),
      dueDate |-> row.due_date, status |-> row.status,
      createdAt |-> row.created_at, updatedAt |-> row.updated_at ]

\* an optional string field: left out, empty, or with text
OptionalStrings == { Undefined, <<>>, <<"x">> }

TaskRecords ==
    [ id : {1}, patientId : OptionalStrings, title : { <<"t">> },
      detailsCiphertext : OptionalStrings, assignedTo : OptionalStrings,
      dueAt : OptionalStrings, priority : {"normal"}, status : {"open"},
      createdBy : {"u1"}, createdAt : { Iso(0), Iso(60) },
      updatedAt : { Iso(60) } ]

RecallRecords ==
    [ id : {1}, patientId : {1}, recallType : {"hygiene"},
      intervalMonths : {6}, lastVisitDate : OptionalStrings,
      dueDate : { Iso(120) }, status : {"due"},
      createdAt : { Iso(0), Iso(60) }, updatedAt : { Iso(60), Iso(120) } ]

\* the row a table holds before the save: none, or one saved earlier
StoredBefore(rows) == { Absent } \cup { <<row>> : row \in rows }

InitSqlStore ==
    /\ FreshServer
    /\ call \in
         { Pending("saveTask", [ existing |-> existing, record |-> task ]) :
             existing \in StoredBefore({ TaskRow(CHOOSE t \in TaskRecords :
                                           t.createdAt = Iso(0)) }),
             task \in TaskRecords }
         \cup
         { Pending("saveRecall", [ existing |-> existing, record |-> recall ]) :
             existing \in StoredBefore({ RecallRow(r) : r \in
                            { x \in RecallRecords : x.createdAt = Iso(0) } }),
             recall \in RecallRecords }

\* saveTask(record) then getTask(record.id)
SaveTaskThenGetTask ==
    Apply("saveTask", mapTask(saveTask(call.value.existing, call.value.record)))

\* saveRecall(record) then the recall as listRecallsDue maps it
SaveRecallThenList ==
    Apply("saveRecall",
          mapRecall(saveRecall(call.value.existing, call.value.record)))

NextSqlStore == SaveTaskThenGetTask \/ SaveRecallThenList

SpecSqlStore == InitSqlStore /\ [][NextSqlStore]_vars

(***************************************************************************)
(* upsertFamily step by step: the reads (getPatient, findFamilyById,       *)
(* findFamilyByGuarantor) are one step, the member is linked in the copy   *)
(* the call holds, and saveFamily is a later step; other calls run between *)
(* the two.                                                                *)
(***************************************************************************)
\* a crypto.randomUUID() no family stored or held by a call carries
RandomUuid ==
    NewId(families \cup { links[c].family : c \in Callers })

LinkInputs ==
    [ familyId : { NoId }, guarantorPatientId : { 1, 2 },
      memberPatientId : { 2, 3 }, relationToGuarantor : { "child" } ]

\* up to the last await before saveFamily: the family found or built, with
\* the member linked
LinkFindFamily(c, input) ==
    /\ links[c].pc = "idle"
    /\ \E done \in { upsertFamilyWithId(families, input, RandomUuid) } :
          links' = [ links EXCEPT ![c] = [ pc |-> "found", input |-> input,
                                           family |-> done.family ] ]
    /\ UNCHANGED <<treatment, bookings, families, ledgerEntries, rolePermissions, config,
                   patients, appointments, scheduleBlocks, repo, auditLog, call>>

\* repo.saveFamily(family): the row of the id is replaced
LinkSaveFamily(c) ==
    /\ links[c].pc = "found"
    /\ families' = { f \in families : f.id # links[c].family.id }
                   \cup { links[c].family }
    /\ links' = [ links EXCEPT ![c].pc = "saved" ]
    /\ UNCHANGED <<treatment, bookings, ledgerEntries, rolePermissions, config, patients,
                   appointments, scheduleBlocks, repo, auditLog, call>>

\* the call has returned and the client may call again
LinkReturn(c) ==
    /\ links[c].pc = "saved"
    /\ links' = [ links EXCEPT ![c] = NoLink ]
    /\ UNCHANGED <<treatment, bookings, families, ledgerEntries, rolePermissions, config,
                   patients, appointments, scheduleBlocks, repo, auditLog, call>>

NextFamilyRace ==
    \E c \in Callers :
        \/ \E input \in LinkInputs : LinkFindFamily(c, input)
        \/ LinkSaveFamily(c)
        \/ LinkReturn(c)

SpecFamilyRace == InitFamily /\ [][NextFamilyRace]_vars

(***************************************************************************)
(* The scheduling tools (index.ts) called with the intervals and patients  *)
(* their schemas accept: startAt and endAt are any strings, patientId any  *)
(* string.  Patient 1 is in the store, patient 2 is not.                   *)
(***************************************************************************)
ScheduleActor == [ userId |-> "u1", role |-> "admin", purpose |-> ValidPurpose ]

\* [startAt, endAt] of a request: 09:00-09:30, the same reversed, an empty
\* interval, and 11:00-11:30 at +02:00 (09:00-09:30 UTC)
ScheduleIntervals ==
    { << Iso(540), Iso(570) >>, << Iso(570), Iso(540) >>, << Iso(540), Iso(540) >>,
      << Stamp(660, "+02:00"), Stamp(690, "+02:00") >> }

ScheduleInputs ==
    { [ ToolInput EXCEPT !.patientId = patientId, !.startAt = interval[1],
                         !.endAt = interval[2] ] :
        patientId \in { 1, 2 }, interval \in ScheduleIntervals }

ScheduleTools ==
    { "schedule-appointment", "book-appointment-slot",
      "add-provider-schedule-block" }

ScheduleWrite ==
    \E tool \in ScheduleTools, input \in ScheduleInputs :
        Handle(tool, ScheduleActor, input)

ScheduleSetStatus ==
    Handle("set-appointment-status", ScheduleActor,
           [ToolInput EXCEPT !.status = "cancelled"])

ScheduleFindOpenSlots ==
    Handle("find-open-slots", ScheduleActor,
           [ToolInput EXCEPT !.intervalMinutes = 30])

InitScheduleOnePatient ==
    /\ rolePermissions = RolePermissionsTable
    /\ config = loadConfig(Undefined)
    /\ patients = { [ id |-> 1 ] }
    /\ appointments = {}
    /\ scheduleBlocks = {}
    /\ repo = [c \in Collections |-> 0]
    /\ auditLog = <<>>
    /\ bookings = NoBookings
    /\ families = {}
    /\ ledgerEntries = {}
    /\ links = NoLinks
    /\ treatment = NoTreatment
    /\ call = NoCall

NextSchedule ==
    \/ ScheduleWrite
    \/ ScheduleSetStatus
    \/ ScheduleFindOpenSlots
    \/ Respond

SpecSchedule == InitScheduleOnePatient /\ [][NextSchedule]_vars

(***************************************************************************)
(* Benefit percentages of an insurance plan (services/clinicOps.ts): as    *)
(* upsertInsurancePlan normalises them, and as importOpenDentalSnapshot    *)
(* hands them to upsertInsurancePlan.                                      *)
(***************************************************************************)
\* the fallback upsertInsurancePlan passes to clampPercent for a category
DefaultPercent(category) ==
    IF category = "preventive" THEN 100
    ELSE IF category \in { "crowns", "prosthodontics" } THEN 50
    ELSE 80

\* normalizedBenefits of upsertInsurancePlan
NormalizedBenefits(benefitPercentages) ==
    [ c \in Categories |->
        << clampPercent(benefitPercentages[c], DefaultPercent(c)) >> ]

\* value || fallback on an optional number
OrNumber(value, fallback) ==
    IF value = Absent \/ value[1] = 0 THEN << fallback >> ELSE value

\* the benefitPercentages importOpenDentalSnapshot builds from a snapshot plan
ImportedBenefitInput(plan) ==
    [ c \in Categories |-> OrNumber(plan[c], DefaultPercent(c)) ]

\* the percentages a snapshot plan or an add-insurance-plan request supplies
SuppliedPercents == { Absent, <<0>>, <<0 - 5>>, <<120>> }

InitBenefits ==
    /\ FreshServer
    /\ call \in { Pending("upsertInsurancePlan", plan) :
                    plan \in [ Categories -> SuppliedPercents ] }

\* the plan stored by the import, next to the plan add-insurance-plan stores
ImportAndAddInsurancePlan ==
    Apply("upsertInsurancePlan",
          [ imported |-> NormalizedBenefits(ImportedBenefitInput(call.value)),
            added |-> NormalizedBenefits(call.value) ])

NextBenefits == ImportAndAddInsurancePlan

SpecBenefits == InitBenefits /\ [][NextBenefits]_vars

(***************************************************************************)
(* The treatment-plan tools (index.ts) on one plan of one patient:         *)
(* treatment.insurance is what listInsurancePlansByPatient returns and     *)
(* treatment.items what listTreatmentPlanItemsByPlan returns for the plan. *)
(***************************************************************************)
MaxPlanItems == 2      \* items of the treatment plan

TreatmentActors ==
    { ScheduleActor,
      [ userId |-> "u2", role |-> "readonly", purpose |-> ValidPurpose ] }

RECURSIVE SumField(_, _)
SumField(items, field) ==
    IF items = <<>> THEN 0 ELSE Head(items)[field] + SumField(Tail(items), field)

\* the totals estimateTreatmentPlan returns for the items it saved
EstimateTotals(items) ==
    [ feeTotal |-> ToFixed2(SumField(items, "fee") * Scale),
      primaryEstimateTotal |->
          ToFixed2(SumField(items, "insuranceEstPrimary") * Scale),
      secondaryEstimateTotal |->
          ToFixed2(SumField(items, "insuranceEstSecondary") * Scale),
      patientEstimateTotal |-> ToFixed2(SumField(items, "patientEst") * Scale) ]

TreatmentOptions(tool, actor) ==
    [ actor |-> actor, permission |-> ToolOptions[tool].permission,
      action |-> tool, resourceType |-> ToolOptions[tool].resourceType,
      resourceId |-> ToolInput.planId,
      requirePurposeOnRead |-> ToolOptions[tool].requirePurposeOnRead ]

\* a tool invocation whose function returns `value` and leaves `items` stored
TreatmentHandle(tool, actor, value, items) ==
    /\ call.tool = NoCall.tool
    /\ Len(auditLog) < MaxAudit
    /\ \E r \in { runWithAuthAudit(TreatmentOptions(tool, actor), Returns(value)) } :
          /\ auditLog' = r.events
          /\ treatment' = IF r.ran THEN [ treatment EXCEPT !.items = items ]
                          ELSE treatment
          /\ call' = [ tool |-> tool, actor |-> actor,
                       permission |-> ToolOptions[tool].permission,
                       resourceId |-> ToolInput.planId,
                       requirePurposeOnRead |->
                           ToolOptions[tool].requirePurposeOnRead,
                       ran |-> r.ran, purposeChecked |-> r.purposeChecked,
                       fnThrown |-> NoError,
                       outcome |-> IF r.thrown = NoError THEN "result" ELSE "error",
                       error |-> r.thrown,
                       value |-> IF r.thrown = NoError THEN r.value ELSE Null ]
    /\ UNCHANGED <<bookings, families, ledgerEntries, links, rolePermissions,
                   config, patients, appointments, scheduleBlocks, repo>>

\* estimate-treatment-plan
EstimateTreatmentPlanTool(actor) ==
    \E saved \in { estimateTreatmentPlan(treatment.insurance, treatment.items) } :
        TreatmentHandle("estimate-treatment-plan", actor,
                        [ items |-> saved, totals |-> EstimateTotals(saved) ],
                        saved)

PlanItemInputs ==
    { TreatmentPlanItem(<<"D", "1">>, 50000, <<40000>>),
      TreatmentPlanItem(<<"X">>, 1005, Absent),
      TreatmentPlanItem(<<"d", "2", "7">>, 2000, <<0>>) }

\* add-treatment-plan-item
AddTreatmentPlanItemTool(actor, item) ==
    /\ Len(treatment.items) < MaxPlanItems
    /\ TreatmentHandle("add-treatment-plan-item", actor, item,
                       Append(treatment.items, item))

TreatmentInsurance ==
    { <<>>,
      << InsurancePlan("primary", NormalizedBenefits([ c \in Categories |-> Absent ])) >>,
      << InsurancePlan("primary", [ c \in Categories |-> <<50>> ]),
         InsurancePlan("secondary", [ c \in Categories |-> <<150>> ]) >> }

InitTreatment ==
    /\ rolePermissions = RolePermissionsTable
    /\ config = loadConfig(Undefined)
    /\ patients = { [ id |-> 1 ] }
    /\ appointments = {}
    /\ scheduleBlocks = {}
    /\ repo = [c \in Collections |-> 0]
    /\ auditLog = <<>>
    /\ bookings = NoBookings
    /\ families = {}
    /\ ledgerEntries = {}
    /\ links = NoLinks
    /\ treatment \in [ insurance : TreatmentInsurance,
                       items : { <<item>> : item \in PlanItemInputs } ]
    /\ call = NoCall

NextTreatment ==
    \/ \E actor \in TreatmentActors : EstimateTreatmentPlanTool(actor)
    \/ \E actor \in TreatmentActors, item \in PlanItemInputs :
          AddTreatmentPlanItemTool(actor, item)
    \/ Respond

SpecTreatment == InitTreatment /\ [][NextTreatment]_vars

(***************************************************************************)
(* Properties.                                                             *)
(***************************************************************************)
Last(seq) == seq[Len(seq)]

\* the static permission set of a role
PolicySet(role) ==
    { RolePermissionsTable[role][i] : i \in DOMAIN RolePermissionsTable[role] }

IsAuthError(e) == e.message # <<>> /\ e.message[1] = "not authorized"

IsPurposeError(e) == e.message # <<>> /\ e.message[1] = "Purpose of use is required"

AnyActor(role) == [ userId |-> "u", role |-> role, purpose |-> Undefined ]

\* C1: every invocation of a wrapped tool appends exactly one AuditEvent to the
\* audit log, whatever its outcome (denied, purpose rejected, returned, threw).
C1_OneAuditEventPerInvocation ==
    [][ call'.tool \in Tools => Len(auditLog') = Len(auditLog) + 1 ]_vars

\* C2: when the actor's role does not hold the tool's permission, the wrapper
\* raises before the unit of work starts: the unit of work is not run and no
\* store changes in that invocation.
C2_DeniedRunsNothing ==
    [][ ( /\ call'.tool \in Tools
          /\ call'.permission \notin PolicySet(call'.actor.role) )
        => ( /\ ~call'.ran
             /\ call'.outcome = "error"
             /\ IsAuthError(call'.error)
             /\ UNCHANGED stores ) ]_vars

C2_Witness ==
    /\ call.tool = "book-appointment-slot"
    /\ call.actor.role = "readonly"
    /\ ~call.ran
    /\ patients # {}

\* C3: when the unit of work throws, the wrapper appends one AuditEvent with
\* success = false whose reason is the error's message, and the caller gets the
\* very same error.
C3_FailureAuditedAndRethrown ==
    [][ ( /\ call'.tool \in Tools
          /\ call'.ran
          /\ call'.fnThrown # NoError )
        => ( /\ auditLog' =
                  Append(auditLog,
                         [ actorUserId |-> call'.actor.userId,
                           actorRole |-> call'.actor.role,
                           action |-> call'.tool,
                           resourceType |-> ToolOptions[call'.tool].resourceType,
                           resourceId |-> call'.resourceId,
                           success |-> FALSE,
                           reason |-> call'.fnThrown.message ])
             /\ call'.outcome = "error"
             /\ call'.error = call'.fnThrown ) ]_vars

C3_Witness ==
    /\ call.tool = "schedule-appointment"
    /\ call.ran
    /\ call.fnThrown = Error(PatientNotFound)
    /\ call.error = Error(PatientNotFound)
    /\ Len(auditLog) > 0
    /\ ~Last(auditLog).success

\* C4: for every tool invocation that passes authorization and is audited, the
\* audit event has success = true exactly when the caller receives a result and
\* success = false exactly when the caller receives an error.
C4_AuditCarriesTerminalOutcome ==
    ( call.tool \in Tools /\ call.ran )
    => ( Last(auditLog).success <=> call.outcome = "result" )

\* C5: no operation changes the role table; whenever the server takes a
\* request, for all roles R and permissions P assertAuthorized succeeds iff P is
\* in the static permission set of R; and every tool invocation is denied
\* exactly when its permission is outside the set of the actor's role.
C5_AuthorizedIffInPolicy ==
    /\ rolePermissions = RolePermissionsTable
    /\ call.tool = NoCall.tool
       => \A R \in userRoles :
             { P \in Permission : assertAuthorized(AnyActor(R), P) = NoError }
                = PolicySet(R)
    /\ call.tool \in Tools
       => ( IsAuthError(call.error)
            <=> call.permission \notin PolicySet(call.actor.role) )

C5_Witness ==
    /\ call.tool \in Tools
    /\ IsAuthError(call.error)
    /\ Len(auditLog) > 0
    /\ Last(auditLog).actorRole = call.actor.role

\* C6: readonly holds only *:read permissions: assertAuthorized fails for a
\* readonly actor on every permission that is not *:read, and no tool gated by
\* such a permission runs its unit of work for a readonly actor.
C6_ReadonlyOnlyReads ==
    /\ \A i \in DOMAIN rolePermissions["readonly"] :
          rolePermissions["readonly"][i] \in ReadPermission
    /\ \A P \in Permission \ ReadPermission :
          assertAuthorized(AnyActor("readonly"), P) # NoError
    /\ ( /\ call.tool \in Tools
         /\ call.actor.role = "readonly"
         /\ call.permission \notin ReadPermission )
       => ( ~call.ran /\ call.outcome = "error" /\ IsAuthError(call.error) )

C6_Witness ==
    /\ call.tool = "analyze-dental-image"
    /\ call.actor.role = "readonly"
    /\ ~call.ran
    /\ call.outcome = "error"

\* the length of s between its first and its last character that is not a space
CoreLength(s) ==
    LET idx == { i \in DOMAIN s : s[i] # " " }
    IN  IF idx = {}
        THEN 0
        ELSE (CHOOSE i \in idx : \A j \in idx : j <= i)
             - (CHOOSE i \in idx : \A j \in idx : i <= j) + 1

\* C7 as stated: requirePurpose fails exactly when actor.purpose is absent or
\* shorter than 8 characters; every purpose of 8 or more characters is accepted.
C7_FailsIffShorterThanEight ==
    call.tool = "requirePurpose"
    => ( call.error # NoError
         <=> ( \/ call.actor.purpose = Undefined
               \/ Len(call.actor.purpose) < MinPurposeLength ) )

\* C7 as amended: requirePurpose fails exactly when actor.purpose is absent or
\* has fewer than 8 characters once leading and trailing whitespace is removed.
C7_FailsIffTrimmedShorterThanEight ==
    call.tool = "requirePurpose"
    => ( call.error # NoError
         <=> ( \/ call.actor.purpose = Undefined
               \/ CoreLength(call.actor.purpose) < MinPurposeLength ) )

C7_Witness ==
    /\ call.tool = "requirePurpose"
    /\ call.actor.purpose # Undefined
    /\ Len(call.actor.purpose) >= MinPurposeLength
    /\ IsPurposeError(call.error)

\* C8: the purpose-of-use check is made iff the tool is flagged
\* requirePurposeOnRead and config.requirePurposeOnSensitiveReads is enabled;
\* otherwise an actor without a purpose is not rejected for lacking one; and
\* when the check is made and fails the unit of work is not run.
C8_PurposeCheckedIffSensitiveAndEnabled ==
    [][ ( call'.tool \in Tools /\ ~IsAuthError(call'.error) )
        => LET required == /\ ToolOptions[call'.tool].requirePurposeOnRead
                           /\ config.requirePurposeOnSensitiveReads
           IN  /\ call'.purposeChecked <=> required
               /\ ( required /\ call'.actor.purpose = Undefined )
                  => ( /\ IsPurposeError(call'.error)
                       /\ ~call'.ran
                       /\ call'.outcome = "error"
                       /\ UNCHANGED stores )
               /\ ~required => ( call'.ran /\ ~IsPurposeError(call'.error) ) ]_vars

C8_Witness ==
    /\ call.tool = "get-account-snapshot"
    /\ call.actor.purpose = Undefined
    /\ config.requirePurposeOnSensitiveReads
    /\ IsPurposeError(call.error)
    /\ ~call.ran

\* [a, b) and [c, d) overlap, on instants
InstantsOverlap(a, b, c, d) == a < d /\ b > c

\* the first and the instant after the last minute of the requested day
DayStart == GetTime(startOfDayIso)
DayEnd == DayStart + 24 * 60

\* C9: findOpenSlots returns exactly the candidate slots that (a) lie inside
\* an available block of the provider when the provider has one on the day,
\* (b) overlap no appointment of the provider and (c) overlap no booked, break
\* or hold block of the provider, two half-open intervals overlapping iff each
\* starts before the other ends.
C9_ReturnsExactlyTheQualifyingSlots ==
    call.tool = "findOpenSlots"
    => LET input == call.value.input
           blocks == { b \in scheduleBlocks : b.provider = input.provider }
           available == { b \in blocks : b.blockType = "available" }
           blocking == { b \in blocks : b.blockType \in {"booked", "break", "hold"} }
           appts == { a \in appointments : a.provider = input.provider }
           Qualifies(slot) ==
               /\ available # {}
                  => \E b \in available :
                        /\ GetTime(slot.startAt) >= GetTime(b.startAt)
                        /\ GetTime(slot.endAt) <= GetTime(b.endAt)
               /\ \A a \in appts :
                     ~InstantsOverlap(GetTime(slot.startAt), GetTime(slot.endAt),
                                      GetTime(a.startAt), GetTime(a.endAt))
               /\ \A b \in blocking :
                     ~InstantsOverlap(GetTime(slot.startAt), GetTime(slot.endAt),
                                      GetTime(b.startAt), GetTime(b.endAt))
       IN  call.value.slots = SelectSeq(BaseSlots(input), Qualifies)

\* the number of slots the formula floor(((endHour-startHour)*60 - duration) /
\* interval) + 1 gives for an input, omitted arguments taking their defaults
FormulaCount(input) ==
    LET startHour == IF input.startHour # NoNumber
                     THEN input.startHour ELSE DefaultStartHour
        endHour == IF input.endHour # NoNumber THEN input.endHour ELSE DefaultEndHour
        interval == IF input.intervalMinutes # 0
                    THEN input.intervalMinutes ELSE DefaultIntervalMinutes
    IN  ( ((endHour - startHour) * MinutesPerHour - input.durationMinutes)
          \div interval ) + 1

\* the slots are in ascending order from startHour:00, `interval` minutes
\* apart, each `duration` minutes long, none ending after endHour:00
EvenlySpaced(input, slots) ==
    LET startHour == IF input.startHour # NoNumber
                     THEN input.startHour ELSE DefaultStartHour
        endHour == IF input.endHour # NoNumber THEN input.endHour ELSE DefaultEndHour
        interval == IF input.intervalMinutes # 0
                    THEN input.intervalMinutes ELSE DefaultIntervalMinutes
    IN  \A k \in DOMAIN slots :
           /\ slots[k].startAt = Iso(startHour * MinutesPerHour + (k - 1) * interval)
           /\ slots[k].endAt = Iso(GetTime(slots[k].startAt) + input.durationMinutes)
           /\ GetTime(slots[k].endAt) <= endHour * MinutesPerHour

\* C10 as stated: on an empty schedule findOpenSlots returns exactly
\* floor(((endHour-startHour)*60 - duration)/interval) + 1 slots, ascending from
\* startHour:00, evenly spaced, each `duration` long, none ending after
\* endHour:00, for every accepted duration, interval, startHour and endHour.
C10_CountIsFormula ==
    ( call.tool = "findOpenSlots" /\ appointments = {} /\ scheduleBlocks = {} )
    => /\ Len(call.value.slots) = FormulaCount(call.value.input)
       /\ EvenlySpaced(call.value.input, call.value.slots)

\* C10 as amended: the count is that formula when the window from startHour:00
\* to endHour:00 is at least `duration` long, and zero when it is shorter.
C10_CountIsFormulaOrZero ==
    ( call.tool = "findOpenSlots" /\ appointments = {} /\ scheduleBlocks = {} )
    => /\ Len(call.value.slots) =
             IF FormulaCount(call.value.input) > 0
             THEN FormulaCount(call.value.input) ELSE 0
       /\ EvenlySpaced(call.value.input, call.value.slots)

C10_Witness ==
    /\ call.tool = "findOpenSlots"
    /\ appointments = {}
    /\ scheduleBlocks = {}
    /\ FormulaCount(call.value.input) < 0
    /\ call.value.slots = <<>>

\* C11: whenever the provider has an available block overlapping the
\* requested day, every slot findOpenSlots returns starts no earlier than the
\* start and ends no later than the end of some available block of the provider.
C11_SlotsInsideAvailability ==
    call.tool = "findOpenSlots"
    => LET input == call.value.input
           available ==
               { b \in scheduleBlocks :
                   /\ b.provider = input.provider
                   /\ b.blockType = "available"
                   /\ InstantsOverlap(GetTime(b.startAt), GetTime(b.endAt),
                                      DayStart, DayEnd) }
       IN  available # {}
           => \A k \in DOMAIN call.value.slots :
                 \E b \in available :
                    /\ GetTime(call.value.slots[k].startAt) >= GetTime(b.startAt)
                    /\ GetTime(call.value.slots[k].endAt) <= GetTime(b.endAt)

\* the appointments and the booked blocks of the provider over a slot
AppointmentsOver(appts, slot) ==
    { a \in appts :
        /\ a.provider = BookingFindInput.provider
        /\ a.startAt = slot.startAt /\ a.endAt = slot.endAt
        /\ a.status = "scheduled" }

BookedBlocksOver(blocks, slot) ==
    { b \in blocks :
        /\ b.provider = BookingFindInput.provider
        /\ b.startAt = slot.startAt /\ b.endAt = slot.endAt
        /\ b.blockType = "booked" }

\* C12: a successful booking first creates one appointment with status
\* scheduled for the provider and interval, creating no block in that step, and
\* then creates one booked block with the same provider and interval whose
\* appointmentId is the id of that appointment, which is already stored.
C12_AppointmentThenBookedBlock ==
    [][ \A c \in Callers :
          /\ ( bookings[c].pc = "found" /\ bookings'[c].pc = "created" )
             => /\ scheduleBlocks' = scheduleBlocks
                /\ \E a \in AppointmentsOver(appointments', bookings[c].slot) :
                      /\ a \notin appointments
                      /\ a.id = bookings'[c].appointmentId
                      /\ appointments' = appointments \cup {a}
          /\ ( bookings[c].pc = "created" /\ bookings'[c].pc = "booked" )
             => /\ appointments' = appointments
                /\ \E a \in AppointmentsOver(appointments, bookings[c].slot) :
                      a.id = bookings[c].appointmentId
                /\ \E b \in BookedBlocksOver(scheduleBlocks', bookings[c].slot) :
                      /\ b \notin scheduleBlocks
                      /\ b.appointmentId = bookings[c].appointmentId
                      /\ scheduleBlocks' = scheduleBlocks \cup {b} ]_vars

C12_Witness ==
    \E c \in Callers :
        /\ bookings[c].pc = "booked"
        /\ \E b \in BookedBlocksOver(scheduleBlocks, bookings[c].slot) :
              b.appointmentId = bookings[c].appointmentId

\* C13: a booking never fails with a conflict (the only error it can end with
\* is the store's), and when two callers got the same slot from findOpenSlots
\* and both booked it, the store holds two scheduled appointments and two
\* booked blocks of the provider over that interval.
C13_DoubleBookingSucceeds ==
    /\ \A c \in Callers :
          /\ bookings[c].pc = "booked" => bookings[c].error = NoError
          /\ bookings[c].error # NoError => bookings[c].error = Error(StoreFailure)
    /\ ( /\ \A c \in Callers : bookings[c].pc = "booked"
         /\ bookings["c1"].slot = bookings["c2"].slot )
       => /\ Cardinality(AppointmentsOver(appointments, bookings["c1"].slot)) = 2
          /\ Cardinality(BookedBlocksOver(scheduleBlocks, bookings["c1"].slot)) = 2
          /\ { b.appointmentId : b \in BookedBlocksOver(scheduleBlocks, bookings["c1"].slot) }
                = { bookings[c].appointmentId : c \in Callers }

C13_Witness ==
    /\ \A c \in Callers : bookings[c].pc = "booked"
    /\ bookings["c1"].slot = bookings["c2"].slot
    /\ Cardinality(AppointmentsOver(appointments, bookings["c1"].slot)) = 2

\* C19: when the schedule-block save of a booking fails after the appointment
\* was created, the step appends one AuditEvent with success = false and the
\* store's message, the caller gets the store's error, and from then on the
\* appointment stays in the store with its status and no block refers to it.
C19_NoRollbackOfAppointment ==
    [][ \A c \in Callers :
          /\ ( bookings[c].pc = "created" /\ bookings'[c].pc = "failed" )
             => /\ auditLog' =
                     Append(auditLog,
                            [ actorUserId |-> BookingActor.userId,
                              actorRole |-> BookingActor.role,
                              action |-> "book-appointment-slot",
                              resourceType |-> "appointment",
                              resourceId |-> NoId,
                              success |-> FALSE,
                              reason |-> StoreFailure ])
                /\ bookings'[c].error = Error(StoreFailure)
                /\ appointments' = appointments
                /\ scheduleBlocks' = scheduleBlocks
          /\ bookings'[c].pc = "failed"
             => /\ \E a \in AppointmentsOver(appointments', bookings'[c].slot) :
                      a.id = bookings'[c].appointmentId
                /\ \A b \in scheduleBlocks' :
                      b.appointmentId # bookings'[c].appointmentId ]_vars

C19_Witness ==
    \E c \in Callers :
        /\ bookings[c].pc = "failed"
        /\ \E a \in appointments : a.id = bookings[c].appointmentId
        /\ Len(auditLog) > 0
        /\ ~Last(auditLog).success

\* the prefix rules in their fixed order: the prefixes of a rule, its category
PrefixRules ==
    << [ prefixes |-> { <<"D", "1">>, <<"T", "1">> }, category |-> "preventive" ],
       [ prefixes |-> { <<"D", "3">>, <<"T", "3">>, <<"D", "2">> },
         category |-> "restorative" ],
       [ prefixes |-> { <<"D", "3", "3">>, <<"D", "3", "4">> },
         category |-> "endodontic" ],
       [ prefixes |-> { <<"D", "4">> }, category |-> "periodontal" ],
       [ prefixes |-> { <<"D", "7">> }, category |-> "oralSurgery" ],
       [ prefixes |-> { <<"D", "2", "7">> }, category |-> "crowns" ],
       [ prefixes |-> { <<"D", "5">>, <<"D", "6">> }, category |-> "prosthodontics" ] >>

\* two characters that are equal or the two cases of one letter
SameLetter(a, b) ==
    \/ a = b
    \/ { a, b } \in { { "d", "D" }, { "t", "T" } }

\* rule i matches the code, compared without regard to case
RuleMatches(i, code) ==
    \E prefix \in PrefixRules[i].prefixes :
        /\ Len(code) >= Len(prefix)
        /\ \A j \in DOMAIN prefix : SameLetter(code[j], prefix[j])

\* C20: estimateCategoryFromAdaCode returns, for every code, one of the seven
\* categories: the category of the first prefix rule (in the fixed order) that
\* matches the code without regard to case, and restorative when none matches.
C20_FirstMatchingRuleWins ==
    call.tool = "estimateCategoryFromAdaCode"
    => LET code == call.value.input
           matching == { i \in DOMAIN PrefixRules : RuleMatches(i, code) }
       IN  /\ call.value.result \in Categories
           /\ matching = {} => call.value.result = "restorative"
           /\ matching # {}
              => call.value.result =
                    PrefixRules[CHOOSE i \in matching : \A j \in matching : i <= j]
                        .category

C20_Witness ==
    /\ call.tool = "estimateCategoryFromAdaCode"
    /\ call.value.input = <<"d", "3", "4">>
    /\ call.value.result = "restorative"

\* the percentage of a tier for a category: 0 without a plan of that tier or
\* without a percentage for the category, else the percentage kept within 0..100
TierPercent(insurance, tier, category) ==
    LET plans == { insurance[i] : i \in { j \in DOMAIN insurance :
                                            insurance[j].tier = tier } }
    IN  IF plans = {} THEN 0
        ELSE LET pct == (CHOOSE p \in plans : TRUE).benefitPercentages[category]
             IN  IF pct = <<>> THEN 0
                 ELSE IF pct[1] < 0 THEN 0
                 ELSE IF pct[1] > 100 THEN 100 ELSE pct[1]

\* x / 10000 cents rounded to the nearest cent (x >= 0)
NearestCent(x) == CHOOSE n \in { x \div 10000, x \div 10000 + 1 } :
                     /\ 10000 * n - x <= 5000
                     /\ x - 10000 * n < 5000

\* C14: for every item, with allowed = allowedFee if present else fee,
\* primaryEstimate = allowed * clamp(primary %) / 100, remaining = max(0, allowed
\* - primaryEstimate), secondaryEstimate = remaining * clamp(secondary %) / 100
\* and patientEstimate = max(0, fee - primaryEstimate - secondaryEstimate), a
\* missing plan counting as 0%, the item saved carries the three amounts
\* rounded to 2 decimals.
C14_EstimateWaterfall ==
    call.tool = "estimateTreatmentPlan"
    => \A k \in DOMAIN call.value.result :
          LET source == call.value.input.items[k]
              saved == call.value.result[k]
              category == estimateCategoryFromAdaCode(source.adaCode)
              allowed == IF source.allowedFee = <<>>
                         THEN source.fee ELSE source.allowedFee[1]
              p1 == TierPercent(call.value.input.insurance, "primary", category)
              p2 == TierPercent(call.value.input.insurance, "secondary", category)
              primaryEstimate == allowed * p1 * 100
              remaining == IF allowed * 10000 > primaryEstimate
                           THEN allowed * 10000 - primaryEstimate ELSE 0
              secondaryEstimate == (remaining \div 100) * p2
              owed == source.fee * 10000 - primaryEstimate - secondaryEstimate
              patientEstimate == IF owed > 0 THEN owed ELSE 0
          IN  /\ saved.insuranceEstPrimary = NearestCent(primaryEstimate)
              /\ saved.insuranceEstSecondary = NearestCent(secondaryEstimate)
              /\ saved.patientEst = NearestCent(patientEstimate)
              /\ saved.fee = source.fee
              /\ saved.adaCode = source.adaCode

\* fee 1000.00, allowedFee 800.00, primary 80%, secondary 50%: 640.00, 80.00
\* and 280.00 are saved
C14_Witness ==
    /\ call.tool = "estimateTreatmentPlan"
    /\ call.value.input.items[1].fee = 100000
    /\ call.value.input.items[1].allowedFee = <<80000>>
    /\ TierPercent(call.value.input.insurance, "primary", "restorative") = 80
    /\ TierPercent(call.value.input.insurance, "secondary", "restorative") = 50
    /\ call.value.input.items[1].adaCode = <<"X">>
    /\ call.value.result[1].insuranceEstPrimary = 64000
    /\ call.value.result[1].insuranceEstSecondary = 8000
    /\ call.value.result[1].patientEst = 28000

\* the ledger entries of a patient with one of the types
EntriesOfType(patientId, types) ==
    { e \in ledgerEntries : e.patientId = patientId /\ e.type \in types }

\* the sum of the amounts of a set of entries
Total(entries) ==
    LET RECURSIVE Add(_)
        Add(rest) == IF rest = {} THEN 0
                     ELSE LET e == CHOOSE x \in rest : TRUE
                          IN  e.amount + Add(rest \ {e})
    IN  Add(entries)

\* C15: the snapshot of a patient has charges = sum of that patient's charge
\* and adjustment entries, credits = sum of payment and insurance-payment
\* entries, pendingInsurance = sum of claim entries, and estimatedBalance =
\* charges - credits - pendingInsurance; entries of other patients count for
\* nothing.
C15_SnapshotPartitionsByType ==
    call.tool = "get-account-snapshot"
    => LET p == call.value.input.patientId
           totals == call.value.result.totals
       IN  /\ totals.charges = Total(EntriesOfType(p, {"charge", "adjustment"}))
           /\ totals.credits =
                  Total(EntriesOfType(p, {"payment", "insurance-payment"}))
           /\ totals.pendingInsurance = Total(EntriesOfType(p, {"claim"}))
           /\ totals.estimatedBalance =
                  totals.charges - totals.credits - totals.pendingInsurance
           /\ \A e \in call.value.result.entries : e.patientId = p

\* charges 100.00, credits 40.00, nothing pending and another patient's
\* charge in the ledger: the balance is 60.00
C15_Witness ==
    /\ call.tool = "get-account-snapshot"
    /\ \E e \in ledgerEntries : e.patientId # call.value.input.patientId
    /\ call.value.result.totals.charges = 10000
    /\ call.value.result.totals.credits = 4000
    /\ call.value.result.totals.pendingInsurance = 0
    /\ call.value.result.totals.estimatedBalance = 6000

\* the bucket of an entry dated `ago` half days before now
BucketOfHalfDays(ago) ==
    IF ago < 31 * 2 THEN "0-30"
    ELSE IF ago < 61 * 2 THEN "31-60"
    ELSE IF ago < 91 * 2 THEN "61-90" ELSE "over-90"

\* C16: in a snapshot each aging bucket is the sum of the patient's charge and
\* adjustment entries whose whole days elapsed fall in it (<= 30, 31..60,
\* 61..90, > 90), payments and claims are in no bucket, and the four buckets
\* sum to totals.charges.
C16_AgingBuckets ==
    call.tool = "get-account-snapshot"
    => LET p == call.value.input.patientId
           aging == call.value.result.aging
           aged == EntriesOfType(p, {"charge", "adjustment"})
       IN  /\ aging["0-30"] + aging["31-60"] + aging["61-90"] + aging["over-90"]
                  = call.value.result.totals.charges
           /\ (\A e \in aged : e.entryDate.valid)
                  => \A b \in DOMAIN aging :
                        aging[b] = Total({ e \in aged :
                                     BucketOfHalfDays(e.entryDate.ago) = b })

\* a charge of 100.00 dated 45 days ago is in 31-60, next to a payment
C16_Witness ==
    /\ call.tool = "get-account-snapshot"
    /\ \E e \in ledgerEntries :
          /\ e.patientId = call.value.input.patientId
          /\ e.type = "charge" /\ e.amount = 10000
          /\ e.entryDate = [ valid |-> TRUE, ago |-> 90 ]
    /\ \E e \in ledgerEntries :
          e.patientId = call.value.input.patientId /\ e.type = "payment"
    /\ call.value.result.aging["31-60"] = 10000
    /\ call.value.result.aging["0-30"] = 0

\* no two entries of the member list are for the same patient
DistinctMembers(family) ==
    \A j, k \in DOMAIN family.members :
        family.members[j].patientId = family.members[k].patientId => j = k

\* the member list `after` is `before` with only the relation of `patientId`
\* set to `relation`
OnlyRelabelled(before, after, patientId, relation) ==
    /\ Len(after) = Len(before)
    /\ \A k \in DOMAIN before :
          /\ after[k].patientId = before[k].patientId
          /\ after[k].isGuarantor = before[k].isGuarantor
          /\ after[k].relationToGuarantor =
                 IF before[k].patientId = patientId THEN relation
                 ELSE before[k].relationToGuarantor

\* C17: every upsertFamily that returns leaves no family with two entries for
\* one patient, the same call made again changes nothing, and linking a
\* patient already in the family changes only that member's relation.
C17_UpsertFamilyIdempotent ==
    [][ (call'.tool = "upsert-family-member" /\ call'.error = NoError)
        => LET input == call'.value.input
               family == call'.value.result
               before == { f \in families : f.id = family.id }
           IN  /\ \A f \in families' : DistinctMembers(f)
               /\ family \in families'
               /\ Cardinality({ k \in DOMAIN family.members :
                     family.members[k].patientId = input.memberPatientId }) = 1
               /\ \E again \in { upsertFamily(families', input) } :
                     again.error = NoError /\ again.families = families'
               /\ \A f \in before :
                     (\E k \in DOMAIN f.members :
                         f.members[k].patientId = input.memberPatientId)
                     => OnlyRelabelled(f.members, family.members,
                                       input.memberPatientId,
                                       input.relationToGuarantor) ]_vars

\* a member linked as "child" and linked again as "spouse": one entry, relabelled
C17_Witness ==
    /\ call.tool = "upsert-family-member"
    /\ call.error = NoError
    /\ call.value.input.memberPatientId = 3
    /\ call.value.input.relationToGuarantor = "spouse"
    /\ Len(call.value.result.members) = 3
    /\ call.value.result \in families
    /\ \E k \in DOMAIN call.value.result.members :
          call.value.result.members[k] =
              [ patientId |-> 3, relationToGuarantor |-> "spouse",
                isGuarantor |-> FALSE ]

\* C18: a record saved to the SQL store and loaded again has every field as
\* saved, optional string fields and supplied createdAt / updatedAt included.
C18_SqlRoundTrip ==
    call.tool \in { "saveTask", "saveRecall" }
    => call.value.result = call.value.input.record

\* C21: a code beginning with D33 or D34 (in either case) is classified
\* endodontic and a code beginning with D27 is classified crowns, so every
\* prefix rule is the result for some code.
C21_EveryRuleEffective ==
    call.tool = "estimateCategoryFromAdaCode"
    => LET code == call.value.input
       IN  /\ (RuleMatches(3, code) => call.value.result = "endodontic")
           /\ (RuleMatches(6, code) => call.value.result = "crowns")

\* the members of a family flagged as its guarantor
GuarantorEntries(family) ==
    { k \in DOMAIN family.members : family.members[k].isGuarantor }

\* C22: after every upsertFamily, made by the tool or by the import, every
\* family has exactly one member flagged isGuarantor, that member is the
\* family's guarantorPatientId, and the guarantorPatientId of a family that
\* existed before is what it was.
C22_OneGuarantorPerFamily ==
    [][ /\ \A g \in families' :
              /\ Cardinality(GuarantorEntries(g)) = 1
              /\ \A k \in GuarantorEntries(g) :
                    g.members[k].patientId = g.guarantorPatientId
        /\ \A f \in families : \A g \in families' :
              g.id = f.id => g.guarantorPatientId = f.guarantorPatientId ]_vars

\* a family reached by its id in a call naming another guarantor, and holding
\* a member the import linked
C22_Witness ==
    /\ call.tool = "upsert-family-member"
    /\ call.error = NoError
    /\ call.value.input.familyId = call.value.result.id
    /\ call.value.input.guarantorPatientId # call.value.result.guarantorPatientId
    /\ Len(call.value.result.members) = 3
    /\ \E k \in DOMAIN call.value.result.members :
          call.value.result.members[k].relationToGuarantor = "family"

\* C23: in every interleaving of upsertFamily calls there is at most one
\* family per guarantor, and the member of every call that has completed is
\* in the family of its guarantor.
C23_OneFamilyPerGuarantor ==
    /\ \A f, g \in families :
          f.guarantorPatientId = g.guarantorPatientId => f = g
    /\ \A c \in Callers :
          links[c].pc = "saved"
          => \A f \in families :
                f.guarantorPatientId = links[c].input.guarantorPatientId
                => \E k \in DOMAIN f.members :
                      f.members[k].patientId = links[c].input.memberPatientId

\* C24: every appointment and every schedule block in the store starts before
\* it ends, on instants.
C24_IntervalsWellFormed ==
    /\ \A a \in appointments : GetTime(a.startAt) < GetTime(a.endAt)
    /\ \A b \in scheduleBlocks : GetTime(b.startAt) < GetTime(b.endAt)

\* C26: every appointment in the store names a patient of the store; patients
\* are never removed, so the patient existed when the appointment was created
\* and a call naming an unknown patient created none.
C26_AppointmentPatientExists ==
    \A a \in appointments : \E p \in patients : p.id = a.patientId

\* C27: no slot returned by find-open-slots overlaps, on instants, the
\* interval of a booked block that bookAppointmentFromSlot saved for the
\* provider, whatever the status of its appointment.
C27_BookedIntervalStaysClosed ==
    (call.tool = "find-open-slots" /\ call.outcome = "result")
    => \A slot \in { call.value[k] : k \in DOMAIN call.value } :
          \A b \in scheduleBlocks :
              (/\ b.blockType = "booked" /\ b.appointmentId # NoId
               /\ b.provider = ToolInput.provider)
              => ~InstantsOverlap(GetTime(slot.startAt), GetTime(slot.endAt),
                                  GetTime(b.startAt), GetTime(b.endAt))

\* C28: for each category the import stores the supplied percentage kept
\* within 0..100 (a supplied 0 as 0) and the category default only when the
\* snapshot leaves it out, which is what add-insurance-plan stores.
C28_ImportClampsLikeAddInsurancePlan ==
    call.tool = "upsertInsurancePlan"
    => /\ call.value.result.imported = call.value.result.added
       /\ \A c \in Categories :
             LET supplied == call.value.input[c]
                 stored == call.value.result.imported[c][1]
             IN  IF supplied = <<>>
                 THEN stored = (IF c = "preventive" THEN 100
                                ELSE IF c \in {"crowns", "prosthodontics"} THEN 50
                                ELSE 80)
                 ELSE stored = (IF supplied[1] < 0 THEN 0
                                ELSE IF supplied[1] > 100 THEN 100
                                ELSE supplied[1])

\* the allowed fee of an item, in cents
AllowedOf(item) == IF item.allowedFee = <<>> THEN item.fee ELSE item.allowedFee[1]

\* what insurance pays, and what all three estimates add up to, in cents
InsurancePays(item) == item.insuranceEstPrimary + item.insuranceEstSecondary

EstimatesSum(item) == InsurancePays(item) + item.patientEst

C25_ReadonlyChangesNothing ==
    [][ (call'.tool \in Tools /\ call'.actor.role = "readonly")
        => UNCHANGED <<patients, appointments, scheduleBlocks, repo, families,
                       ledgerEntries, treatment>> ]_vars

\* C30: the items a run of estimateTreatmentPlan has saved are what a further
\* run on them saves, with the same totals.
C30_EstimateIdempotent ==
    [][ (call'.tool = "estimate-treatment-plan" /\ call'.ran)
        => \E again \in { estimateTreatmentPlan(treatment'.insurance,
                                                treatment'.items) } :
              /\ treatment'.items = call'.value.items
              /\ again = call'.value.items
              /\ \A k \in DOMAIN again :
                    /\ again[k].insuranceEstPrimary =
                           call'.value.items[k].insuranceEstPrimary
                    /\ again[k].insuranceEstSecondary =
                           call'.value.items[k].insuranceEstSecondary
                    /\ again[k].patientEst = call'.value.items[k].patientEst
              /\ call'.value.totals.primaryEstimateTotal
                     = ToFixed2(SumField(again, "insuranceEstPrimary") * 10000)
              /\ call'.value.totals.patientEstimateTotal
                     = ToFixed2(SumField(again, "patientEst") * 10000) ]_vars

\* a second run after a first, on an item whose saved estimates differ from
\* those addTreatmentPlanItem wrote
C30_Witness ==
    /\ call.tool = "estimate-treatment-plan"
    /\ call.ran
    /\ Len(auditLog) = 2
    /\ \A k \in DOMAIN auditLog :
          auditLog[k].action = "estimate-treatment-plan" /\ auditLog[k].success
    /\ treatment.items = call.value.items
    /\ treatment.items[1].insuranceEstPrimary > 0
    /\ treatment.items[1].patientEst < treatment.items[1].fee

====
